---- MODULE Spec2Model ----
(***************************************************************************)
(* Per-session run orchestrator of the chat backend:                       *)
(*   backend/app/conversation/model.py   ConversationModel                 *)
(*   backend/app/agent/stream_runner.py  stream_once, run_tool_loop_...    *)
(*   backend/app/ws/hub.py               register, unregister, send        *)
(*   backend/app/sessions/store.py       add_message, update_message_...   *)
(*                                                                         *)
(* Concurrency is asyncio's: one thread, a coroutine runs until it         *)
(* suspends.  No coroutine suspends while it holds ConversationModel.lock  *)
(* or the hub's _lock (the only await inside a locked block is the call of *)
(* _cancel_inflight_locked, which itself never suspends), so every locked  *)
(* block is entered without waiting and runs as one atomic step.  A run    *)
(* task suspends where it awaits the upstream stream (the async for of     *)
(* stream_once) and where it awaits a tool (dispatch_tool_call); a send    *)
(* task suspends at each await ws.send_json.                               *)
(*                                                                         *)
(* One session is modelled: a ConversationModel, its transcript rows and   *)
(* its entry of the hub's connection table; SpecM has several sessions.    *)
(*                                                                         *)
(* Spec, FairSpec and SpecD are the orchestrator (with the delivery        *)
(* channel in SpecD); there the tool loop is a run task's position and the *)
(* number of tool calls of its step.  SpecS is one call of stream_once     *)
(* with its slots for tool calls, SpecL one call of the tool loop with its *)
(* message history.  SpecK and FairSpecK are the orchestrator at the grain *)
(* of its lock: acquiring the lock and the await inside the locked block   *)
(* of submit_user_message are steps of their own.  SpecW is the WebSocket  *)
(* handler of backend/app/api/ws_sessions.py with its InFlight record and  *)
(* its run task.  SpecB is the orchestrator with frames enough for a run   *)
(* to use up the step budget of the tool loop.  SpecM is get_model of      *)
(* backend/app/conversation/hub.py with the ConversationModel objects of   *)
(* several sessions and the connection table of ws/hub.py.                 *)
(***************************************************************************)
EXTENDS Integers, Sequences, FiniteSets, TLC

\* ---------------------------------------------------------------- bounds
MaxSubmits == 3          \* submit_user_message calls in a behaviour
MaxFrames == 2           \* upstream frames received, all run tasks together
MaxCancels == 1          \* external Task.cancel() calls
MaxToolCalls == 1        \* tool calls one streaming step accumulates
MaxSubmitsD == 2         \* the same budgets for the delivery specification
MaxFramesD == 2
MaxSendsInFlight == 2    \* send tasks suspended in ws.send_json at a time
MaxHubOps == 2           \* register and unregister calls
MaxWork == 4             \* submits and frames together
MaxWorkD == 3
MaxDrvFrames == 3        \* frames one call of stream_once receives
MaxVaried == 3           \* streams other than one tool call, and failed tools, per loop
MaxSubmitsK == 2         \* submit calls, at the grain of the lock
MaxFramesK == 1          \* upstream frames, at the grain of the lock
MaxWsMsgs == 2           \* messages the WebSocket handler receives
MaxWsFrames == 1         \* text tokens its run tasks receive
MaxWsTools == 1          \* tool calls of one of its run tasks
MaxSubmitsB == 1         \* submits, when a run uses up the step budget
MaxSpareFrames == 1      \* frames beyond one tool-call frame per step
MaxOpsM == 5             \* calls made with several sessions: get_model, the
                         \* operations on the objects, register and unregister
MaxSendsInFlightM == 1   \* send tasks suspended in ws.send_json, several sessions

\* ------------------------------------------------------- program constants
max_steps == 10          \* model.py:209, the step budget passed to the loop

\* ------------------------------------------------------------ input sets
RequestIds == {"r1", "r2"}
Tokens == {"a", "b"}
Clients == {"c1"}
\* message contents as character sequences; " " is whitespace
Contents == {<<>>, <<" ">>, <<" ", "x", " ">>}

NoRun == 0               \* active_run is None
NoMsg == 0               \* messageId None / open_assistant None

VARIABLES
    activeRun,    \* ConversationModel.active_run: index into runs, or NoRun
    runs,         \* every ActiveRun object created, in creation order
    seen,         \* ConversationModel._seen_request_ids (its key set)
    tasks,        \* the asyncio task of each run (same index as runs)
    transcript,   \* the session's rows of the messages table, in insert order
    emitted,      \* the send tasks created, as their messages, in creation order
    sends,        \* the state of each send task (same index as emitted)
    conns,        \* ws/hub.py _conns[session_id]
    delivered,    \* per client, the indices into emitted it has received
    budget,       \* what is left of the bounds above
    drv,          \* one call of stream_once: its locals and its position
    loop,         \* one call of run_tool_loop_streaming: locals and position
    lk,           \* ConversationModel.lock, the submit calls in progress and
                  \* the terminal block each run task is about to enter
    wsh,          \* api/ws_sessions.py: one ws_session handler, its InFlight
                  \* record, its run task and what it wrote and sent
    hub           \* conversation/hub.py and ws/hub.py with several sessions:
                  \* _models, the ConversationModel objects, _conns

\* the orchestrator and the delivery channel
ovars == <<activeRun, runs, seen, tasks, transcript, emitted, sends, conns,
           delivered, budget>>

vars == <<activeRun, runs, seen, tasks, transcript, emitted, sends, conns,
          delivered, budget, drv, loop, lk, wsh, hub>>

\* ------------------------------------------------------------- helpers
RECURSIVE LStrip(_)
LStrip(s) == IF s # <<>> /\ Head(s) = " " THEN LStrip(Tail(s)) ELSE s

RECURSIVE RStrip(_)
RStrip(s) ==
    IF s # <<>> /\ s[Len(s)] = " " THEN RStrip(SubSeq(s, 1, Len(s) - 1)) ELSE s

\* Strip that removes nothing
StripNothing(s) == s

\* (content or "").strip()
Strip(s) == RStrip(LStrip(s))

Event(type, rid, mid, text, ok) ==
    [type |-> type, rid |-> rid, mid |-> mid, text |-> text, ok |-> ok]

Terminal == {"chat.done", "run.error", "run.cancelled"}

\* The orchestrator's state as one value, so that the handlers below can be
\* composed inside one atomic step of a coroutine.
Store ==
    [ar |-> activeRun, runs |-> runs, seen |-> seen, tr |-> transcript,
     em |-> emitted]

\* sessions/store.py add_message: a new row; its id is its position
AddMessage(S, role, content, rid) ==
    [S EXCEPT !.tr = Append(@, [role |-> role, content |-> content, rid |-> rid])]

\* sessions/store.py update_message_content (meta is None): UPDATE ... WHERE id=?
UpdateMessageContent(S, mid, content) ==
    IF mid \in 1..Len(S.tr) THEN [S EXCEPT !.tr[mid].content = content] ELSE S

\* asyncio.create_task(send(self.session_id, msg))
CreateSendTask(S, ev) == [S EXCEPT !.em = Append(@, ev)]


\* ------------------------------------------- ConversationModel handlers
\* str(uuid4()) in _on_chat_delta: an id that is no row's id
FreshUuid(S) == 0 - (Len(S.em) + 1)

\* the ActiveRun(...) of submit_user_message
NewActiveRun(rid) ==
    [rid |-> rid, status |-> "running", ended_at |-> "None", cancel |-> FALSE,
     oa |-> NoMsg, buf |-> <<>>, tool_meta |-> {}]

\* _cancel_inflight_locked without the write of the buffered text
CancelInflightNoFlush(S, reason) ==
    IF S.ar = NoRun THEN S
    ELSE
      LET run == S.runs[S.ar]
          S1 == IF run.status = "running"
                THEN [S EXCEPT !.runs[S.ar].status = "cancelled",
                               !.runs[S.ar].ended_at = "now",
                               !.runs[S.ar].cancel = TRUE]
                ELSE S
          S2 == CreateSendTask(S1, Event("run.cancelled", run.rid, NoMsg, reason, TRUE))
      IN [S2 EXCEPT !.ar = NoRun]

\* _cancel_inflight_locked
CancelInflightLocked(S, reason) ==
    IF S.ar = NoRun THEN S
    ELSE
      LET run == S.runs[S.ar]
          S1 == IF run.status = "running"
                THEN LET M == [S EXCEPT !.runs[S.ar].status = "cancelled",
                                        !.runs[S.ar].ended_at = "now",
                                        !.runs[S.ar].cancel = TRUE]
                     IN IF run.oa # NoMsg /\ run.buf # <<>>
                        THEN UpdateMessageContent(M, run.oa, run.buf)
                        ELSE M
                ELSE S
          S2 == CreateSendTask(S1, Event("run.cancelled", run.rid, NoMsg, reason, TRUE))
      IN [S2 EXCEPT !.ar = NoRun]

\* ActiveIs without the comparison of the request ids
ActiveIsAnyRun(S, rid) == S.ar # NoRun

\* the guard of every transition of _run_generation and of the callbacks:
\* self.active_run and self.active_run.request_id == request_id
ActiveIs(S, rid) == S.ar # NoRun /\ S.runs[S.ar].rid = rid

\* _on_chat_delta
OnChatDelta(S, rid, text) ==
    IF ~ActiveIs(S, rid) THEN S
    ELSE
      LET S1 == IF S.runs[S.ar].oa = NoMsg
                THEN LET A == AddMessage(S, "assistant", <<>>, rid)
                         B == CreateSendTask(A,
                                Event("chat.started", rid, FreshUuid(A), "", TRUE))
                         C == AddMessage(B, "assistant", <<>>, rid)
                         D == [C EXCEPT !.runs[C.ar].oa = Len(C.tr),
                                        !.runs[C.ar].buf = <<>>]
                     IN CreateSendTask(D,
                          Event("chat.started", rid, Len(C.tr), "", TRUE))
                ELSE S
          S2 == [S1 EXCEPT !.runs[S1.ar].buf = Append(@, text)]
      IN CreateSendTask(S2,
           Event("chat.delta", rid, S2.runs[S2.ar].oa, text, TRUE))

\* _on_tool_start
OnToolStart(S, rid, tc_id) ==
    LET S1 == IF ActiveIs(S, rid)
              THEN [S EXCEPT !.runs[S.ar].tool_meta = @ \cup {tc_id}]
              ELSE S
    IN CreateSendTask(S1, Event("tool.start", rid, NoMsg, tc_id, TRUE))

\* _on_tool_end
OnToolEnd(S, rid, tc_id, ok) ==
    CreateSendTask(S, Event("tool.end", rid, NoMsg, tc_id, ok))

\* _on_tool_output: the one place that inserts a row of role tool.  on_event
\* calls it for an event of type tool.output; run_tool_loop_streaming emits
\* chat.delta, tool.start and tool.end only, so no step of the run task
\* applies it.
OnToolOutput(S, rid, tc_id, output) ==
    CreateSendTask(AddMessage(S, "tool", output, rid),
                   Event("tool.output", rid, NoMsg, tc_id, TRUE))

\* Finish without the write of the buffered text to the transcript
FinishNoFlush(S, rid) ==
    IF ~ActiveIs(S, rid) THEN S
    ELSE
      LET run == S.runs[S.ar]
          S1 == [S EXCEPT !.runs[S.ar].status = "done",
                           !.runs[S.ar].ended_at = "now"]
          S2 == CreateSendTask(S1, Event("chat.done", rid, run.oa, "", TRUE))
      IN [S2 EXCEPT !.ar = NoRun]

\* Finish whose chat.done never carries a message id
FinishNullId(S, rid) ==
    IF ~ActiveIs(S, rid) THEN S
    ELSE
      LET run == S.runs[S.ar]
          S1 == [S EXCEPT !.runs[S.ar].status = "done",
                           !.runs[S.ar].ended_at = "now"]
          S2 == IF run.oa # NoMsg
                THEN UpdateMessageContent(S1, run.oa, run.buf)
                ELSE S1
          S3 == CreateSendTask(S2, Event("chat.done", rid, NoMsg, "", TRUE))
      IN [S3 EXCEPT !.ar = NoRun]

\* Finish that leaves the finished run in the active-run slot
FinishKeepsSlot(S, rid) ==
    IF ~ActiveIs(S, rid) THEN S
    ELSE
      LET run == S.runs[S.ar]
          S1 == [S EXCEPT !.runs[S.ar].status = "done",
                           !.runs[S.ar].ended_at = "now"]
      IN IF run.oa # NoMsg
         THEN CreateSendTask(UpdateMessageContent(S1, run.oa, run.buf),
                Event("chat.done", rid, run.oa, "", TRUE))
         ELSE CreateSendTask(S1, Event("chat.done", rid, NoMsg, "", TRUE))

\* Finish without the comparison of the request id with the run in the slot
FinishAnyRun(S, rid) ==
    IF S.ar = NoRun THEN S
    ELSE
      LET run == S.runs[S.ar]
          S1 == [S EXCEPT !.runs[S.ar].status = "done",
                           !.runs[S.ar].ended_at = "now"]
          S2 == IF run.oa # NoMsg
                THEN CreateSendTask(UpdateMessageContent(S1, run.oa, run.buf),
                       Event("chat.done", rid, run.oa, "", TRUE))
                ELSE CreateSendTask(S1, Event("chat.done", rid, NoMsg, "", TRUE))
      IN [S2 EXCEPT !.ar = NoRun]

\* _run_generation, the block after the tool loop has returned
Finish(S, rid) ==
    IF ~ActiveIs(S, rid) THEN S
    ELSE
      LET run == S.runs[S.ar]
          S1 == [S EXCEPT !.runs[S.ar].status = "done",
                           !.runs[S.ar].ended_at = "now"]
          S2 == IF run.oa # NoMsg
                THEN CreateSendTask(UpdateMessageContent(S1, run.oa, run.buf),
                       Event("chat.done", rid, run.oa, "", TRUE))
                ELSE CreateSendTask(S1, Event("chat.done", rid, NoMsg, "", TRUE))
      IN [S2 EXCEPT !.ar = NoRun]

\* _run_generation, except asyncio.CancelledError
HandleCancelled(S, rid) ==
    IF ActiveIs(S, rid) THEN CancelInflightLocked(S, "task_cancelled") ELSE S

\* HandleException that leaves the run in the active-run slot
HandleExceptionKeepsSlot(S, rid) ==
    IF ~ActiveIs(S, rid) THEN S
    ELSE
      LET S1 == [S EXCEPT !.runs[S.ar].status = "error",
                           !.runs[S.ar].ended_at = "now"]
      IN CreateSendTask(S1, Event("run.error", rid, NoMsg, "error", TRUE))

\* _run_generation, except Exception
HandleException(S, rid) ==
    IF ~ActiveIs(S, rid) THEN S
    ELSE
      LET S1 == [S EXCEPT !.runs[S.ar].status = "error",
                           !.runs[S.ar].ended_at = "now"]
          S2 == CreateSendTask(S1, Event("run.error", rid, NoMsg, "error", TRUE))
      IN [S2 EXCEPT !.ar = NoRun]

\* A send task as created: not yet started
NewSend == [st |-> "new", targets |-> <<>>, pos |-> 0]

\* The step's result becomes the next state; every message added to the
\* store is a send task created by asyncio.create_task.
Commit(S) ==
    /\ activeRun' = S.ar
    /\ runs' = S.runs
    /\ seen' = S.seen
    /\ transcript' = S.tr
    /\ emitted' = S.em
    /\ sends' = sends \o [k \in 1..(Len(S.em) - Len(emitted)) |-> NewSend]

\* snapshot_view: the view built under the lock and the rows read after it
\* (no suspension in between).  startedAt, endedAt and model are copied
\* from the ActiveRun like requestId and status and are not modelled.
SnapshotView ==
    [messages |-> transcript,
     activeRun |-> IF activeRun = NoRun THEN <<>>
                   ELSE <<[requestId |-> runs[activeRun].rid,
                           status |-> runs[activeRun].status]>>,
     overlays |-> IF activeRun # NoRun /\ runs[activeRun].oa # NoMsg
                  THEN <<[messageId |-> runs[activeRun].oa,
                          content |-> runs[activeRun].buf]>>
                  ELSE <<>>]

\* ----------------------------------------------------------- operations
\* IsReplay that recognises a replay only while no run is active
IsReplayIdleOnly(rid) == rid \in seen /\ activeRun = NoRun

\* submit_user_message: the idempotency test of the locked block
IsReplay(rid) ==
    rid \in seen /\ (activeRun = NoRun \/ runs[activeRun].rid # rid)

\* submit_user_message: the test that supersedes the in-flight run
Supersedes(rid) ==
    /\ activeRun # NoRun
    /\ runs[activeRun].status = "running"
    /\ runs[activeRun].rid # rid

NewTask == [pc |-> "new", step |-> 0, ntc |-> 0, tci |-> 0]

\* submit_user_message(request_id, content)
Submit(rid, c) ==
    /\ UNCHANGED <<drv, loop, lk, wsh, hub>>
    /\ budget.submits > 0 /\ budget.work > 0
    /\ budget' = [budget EXCEPT !.submits = @ - 1, !.work = @ - 1]
    /\ UNCHANGED <<conns, delivered>>
    /\ LET content == Strip(c) IN
       IF content = <<>>
       THEN UNCHANGED <<activeRun, runs, seen, tasks, transcript, emitted, sends>>
       ELSE IF IsReplay(rid)
       THEN /\ Commit(CreateSendTask(Store,
                        Event("chat.started", rid, NoMsg, "", TRUE)))
            /\ UNCHANGED tasks
       ELSE LET S1 == IF Supersedes(rid)
                      THEN CancelInflightLocked(Store, "new_message")
                      ELSE Store
                S2 == AddMessage(S1, "user", content, rid)
                S3 == [S2 EXCEPT !.runs = Append(@, NewActiveRun(rid)),
                                 !.ar = Len(S2.runs) + 1,
                                 !.seen = @ \cup {rid}]
                S4 == CreateSendTask(S3,
                        Event("chat.started", rid, NoMsg, "", TRUE))
            IN /\ Commit(S4)
               /\ tasks' = Append(tasks, NewTask)


\* ------------------------------------------------------- the run task
\* _run_generation(request_id, model, cancel_event) of run i, with the tool
\* loop it awaits (run_tool_loop_streaming) and that loop's stream_once.
\* tasks[i].pc: "new" created, not yet run; "stream" suspended in the
\* async for of stream_once; "tool" suspended in dispatch_tool_call;
\* "done" returned; "cancelled" cancelled before its first step.

\* what one upstream frame carries: a text delta or a tool-call delta
Frames ==
    {[text |-> t, tool |-> FALSE] : t \in Tokens} \cup {[text |-> "", tool |-> TRUE]}

\* the tool.start event of the loop has no tcId: str(payload.get("tcId") or "")
NoTcId == ""

SetTask(i, pc, step, ntc, tci) ==
    tasks' = [tasks EXCEPT ![i] = [pc |-> pc, step |-> step, ntc |-> ntc, tci |-> tci]]

\* First step of the task: messages_for_llm, then the tool loop is entered and
\* its first stream_once awaits the first upstream frame.  This is the
\* outcome in which the call of the loop binds; it is kept beside
\* TaskStartRaises so that the callbacks and the transitions of
\* _run_generation are exercised by the loop of stream_runner.py as written.
\* Every behaviour of the files as they stand is a behaviour of this model.
TaskStart(i) ==
    /\ UNCHANGED <<drv, loop, lk, wsh, hub>>
    /\ i \in 1..Len(tasks)
    /\ tasks[i].pc = "new"
    /\ SetTask(i, "stream", 0, 0, 0)
    /\ UNCHANGED <<activeRun, runs, seen, transcript, emitted, sends, conns,
                   delivered, budget>>

\* First step of the task when the call of the tool loop raises.  The call
\* at model.py:204-211 passes session_id=..., a keyword the signature at
\* stream_runner.py:68-75 does not have, so as the two files stand this is
\* the outcome of the call (TypeError); the except Exception block runs.
TaskStartRaises(i) ==
    /\ UNCHANGED <<drv, loop, lk, wsh, hub>>
    /\ i \in 1..Len(tasks)
    /\ tasks[i].pc = "new"
    /\ SetTask(i, "done", 0, 0, 0)
    /\ Commit(HandleException(Store, runs[i].rid))
    /\ UNCHANGED <<conns, delivered, budget>>

\* stream_once receives a frame: the cancellation check, then the frame's
\* text goes to on_delta -> on_event -> _on_chat_delta, its tool-call delta
\* into a slot.  When the check fires, stream_once returns, the loop's own
\* check breaks, the loop returns and _run_generation finishes.
StreamFrame(i, f) ==
    /\ UNCHANGED <<drv, loop, lk, wsh, hub>>
    /\ i \in 1..Len(tasks)
    /\ tasks[i].pc = "stream"
    /\ budget.frames > 0 /\ budget.work > 0
    /\ f.tool => tasks[i].ntc < MaxToolCalls
    /\ budget' = [budget EXCEPT !.frames = @ - 1, !.work = @ - 1]
    /\ UNCHANGED <<conns, delivered>>
    /\ IF runs[i].cancel
       THEN /\ SetTask(i, "done", tasks[i].step, tasks[i].ntc, 0)
            /\ Commit(Finish(Store, runs[i].rid))
       ELSE /\ SetTask(i, "stream", tasks[i].step,
                       IF f.tool THEN tasks[i].ntc + 1 ELSE tasks[i].ntc, 0)
            /\ Commit(IF f.text # "" THEN OnChatDelta(Store, runs[i].rid, f.text)
                      ELSE Store)

\* The upstream stream ends: stream_once returns its result to the loop.
StreamEnd(i) ==
    /\ UNCHANGED <<drv, loop, lk, wsh, hub>>
    /\ i \in 1..Len(tasks)
    /\ tasks[i].pc = "stream"
    /\ UNCHANGED <<conns, delivered, budget>>
    /\ IF runs[i].cancel \/ tasks[i].ntc = 0
       THEN \* cancelled mid-stream, or a step without tool calls: return
            /\ SetTask(i, "done", tasks[i].step, tasks[i].ntc, 0)
            /\ Commit(Finish(Store, runs[i].rid))
       ELSE \* tool.start of the first tool call, then await its dispatch
            /\ SetTask(i, "tool", tasks[i].step, tasks[i].ntc, 1)
            /\ Commit(OnToolStart(Store, runs[i].rid, NoTcId))

\* The upstream call fails (chat_completions_stream raises): except Exception
UpstreamFails(i) ==
    /\ UNCHANGED <<drv, loop, lk, wsh, hub>>
    /\ i \in 1..Len(tasks)
    /\ tasks[i].pc = "stream"
    /\ SetTask(i, "done", tasks[i].step, tasks[i].ntc, 0)
    /\ Commit(HandleException(Store, runs[i].rid))
    /\ UNCHANGED <<conns, delivered, budget>>

\* ToolReturns in which the loop raises when its step budget is used up
ToolReturnsExhaustedRaises(i, ok) ==
    /\ UNCHANGED <<drv, loop, lk, wsh, hub>>
    /\ i \in 1..Len(tasks)
    /\ tasks[i].pc = "tool"
    /\ UNCHANGED <<conns, delivered, budget>>
    /\ LET t == tasks[i]
           rid == runs[i].rid
           S1 == OnToolEnd(Store, rid, NoTcId, ok)
       IN IF t.tci < t.ntc
          THEN /\ SetTask(i, "tool", t.step, t.ntc, t.tci + 1)
               /\ Commit(OnToolStart(S1, rid, NoTcId))
          ELSE IF t.step + 1 < max_steps
          THEN /\ SetTask(i, "stream", t.step + 1, 0, 0)
               /\ Commit(S1)
          ELSE /\ SetTask(i, "done", t.step + 1, 0, 0)
               /\ Commit(HandleException(S1, rid))

\* dispatch_tool_call returns or raises (ok): tool.end, the tool message, then
\* the next tool call of the step or the next iteration of the loop.
ToolReturns(i, ok) ==
    /\ UNCHANGED <<drv, loop, lk, wsh, hub>>
    /\ i \in 1..Len(tasks)
    /\ tasks[i].pc = "tool"
    /\ UNCHANGED <<conns, delivered, budget>>
    /\ LET t == tasks[i]
           rid == runs[i].rid
           S1 == OnToolEnd(Store, rid, NoTcId, ok)
       IN IF t.tci < t.ntc
          THEN /\ SetTask(i, "tool", t.step, t.ntc, t.tci + 1)
               /\ Commit(OnToolStart(S1, rid, NoTcId))
          ELSE IF t.step + 1 < max_steps
          THEN /\ SetTask(i, "stream", t.step + 1, 0, 0)
               /\ Commit(S1)
          ELSE /\ SetTask(i, "done", t.step + 1, 0, 0)
               /\ Commit(Finish(S1, rid))

\* Task.cancel() from outside the orchestrator.  A task that has not run yet
\* is cancelled without its coroutine body being entered; a suspended task
\* gets CancelledError at its await and runs the except block.
ExternalCancel(i) ==
    /\ UNCHANGED <<drv, loop, lk, wsh, hub>>
    /\ i \in 1..Len(tasks)
    /\ tasks[i].pc \in {"new", "stream", "tool"}
    /\ budget.cancels > 0
    /\ budget' = [budget EXCEPT !.cancels = @ - 1]
    /\ UNCHANGED <<conns, delivered>>
    /\ IF tasks[i].pc = "new"
       THEN /\ SetTask(i, "cancelled", 0, 0, 0)
            /\ UNCHANGED <<activeRun, runs, seen, transcript, emitted, sends>>
       ELSE /\ SetTask(i, "done", tasks[i].step, tasks[i].ntc, tasks[i].tci)
            /\ Commit(HandleCancelled(Store, runs[i].rid))

\* -------------------------------------------------- the delivery channel
\* ws/hub.py register
Register(c) ==
    /\ UNCHANGED <<drv, loop, lk, wsh, hub>>
    /\ c \notin conns
    /\ budget.hub > 0
    /\ budget' = [budget EXCEPT !.hub = @ - 1]
    /\ conns' = conns \cup {c}
    /\ UNCHANGED <<activeRun, runs, seen, tasks, transcript, emitted, sends,
                   delivered>>

\* ws/hub.py unregister
Unregister(c) ==
    /\ UNCHANGED <<drv, loop, lk, wsh, hub>>
    /\ c \in conns
    /\ budget.hub > 0
    /\ budget' = [budget EXCEPT !.hub = @ - 1]
    /\ conns' = conns \ {c}
    /\ UNCHANGED <<activeRun, runs, seen, tasks, transcript, emitted, sends,
                   delivered>>

\* the orders list(set) can give
Listings(S) ==
    {s \in [1..Cardinality(S) -> S] : \A a, b \in 1..Cardinality(S) : s[a] = s[b] => a = b}

InFlight == {k \in 1..Len(sends) : sends[k].st = "run"}

\* ws/hub.py send, first step: the tasks start in the order of their
\* creation; the targets are listed under the hub's lock.
SendStart(k) ==
    /\ UNCHANGED <<drv, loop, lk, wsh, hub>>
    /\ k \in 1..Len(sends)
    /\ sends[k].st = "new"
    /\ \A j \in 1..(k - 1) : sends[j].st # "new"
    /\ Cardinality(InFlight) < MaxSendsInFlight
    /\ \E l \in Listings(conns) :
         sends' = [sends EXCEPT ![k] =
                     [st |-> IF l = <<>> THEN "done" ELSE "run",
                      targets |-> l, pos |-> 0]]
    /\ UNCHANGED <<activeRun, runs, seen, tasks, transcript, emitted, conns,
                   delivered, budget>>

\* ws/hub.py send, one await ws.send_json(msg): the message reaches the
\* client, or the call raises for a client that is gone and is swallowed.
\* When the awaited call completes is the connection's business, so the
\* suspended send tasks resume in any order.
SendJson(k) ==
    /\ UNCHANGED <<drv, loop, lk, wsh, hub>>
    /\ k \in 1..Len(sends)
    /\ sends[k].st = "run"
    /\ LET ws == sends[k].targets[sends[k].pos + 1]
           last == sends[k].pos + 1 = Len(sends[k].targets)
       IN /\ sends' = [sends EXCEPT ![k].st = IF last THEN "done" ELSE "run",
                                    ![k].pos = @ + 1]
          /\ delivered' = IF ws \in conns
                          THEN [delivered EXCEPT ![ws] = Append(@, k)]
                          ELSE delivered
    /\ UNCHANGED <<activeRun, runs, seen, tasks, transcript, emitted, conns,
                   budget>>

\* ------------------------------------------------------ the stream driver
\* stream_once, frame by frame.  Strings that are concatenated (the text,
\* the arguments of a tool call) are sequences of characters; "" and <<>>
\* are the values Python treats as false.

NoIndex == 0 - 1         \* a tool-call delta without "index" (idx is None)
ToolIndices == {0, 1}
None == "None"

\* one element of delta["tool_calls"]
TcDelta(index, id, name, arguments) ==
    [index |-> index, id |-> id, name |-> name, arguments |-> arguments]

\* one frame of the upstream stream: choices[0].delta and finish_reason
Frame(content, tcs, finish) == [content |-> content, tcs |-> tcs, finish |-> finish]

\* the frames the stream driver is checked with: a tool-call delta opens a
\* call (id and name), carries a fragment of the arguments, or names the
\* function again
TcShapes ==
    {[id |-> "i", name |-> "f", arguments |-> <<>>],
     [id |-> "", name |-> "", arguments |-> <<"x">>],
     [id |-> "", name |-> "", arguments |-> <<"y">>],
     [id |-> "", name |-> "g", arguments |-> <<>>]}

TcDeltas ==
    {TcDelta(x, s.id, s.name, s.arguments) :
        x \in ToolIndices \cup {NoIndex}, s \in TcShapes}

ArgDeltas == {TcDelta(x, "", "", a) : x \in ToolIndices, a \in {<<"x">>, <<"y">>}}

DrvFrames ==
    {Frame(t, <<>>, "") : t \in Tokens} \cup {Frame("", <<>>, "stop")}
    \cup {Frame("", <<d>>, "") : d \in TcDeltas}
    \cup {Frame("", <<p[1], p[2]>>, "") :
            p \in {q \in ArgDeltas \X ArgDeltas :
                     q[1].index # q[2].index /\ q[1].arguments # q[2].arguments}}

\* tool_calls.setdefault(int(idx), {...})
NewSlot == [id |-> None, name |-> None, arguments |-> <<>>]

\* the body of "for tc in delta['tool_calls']" for one tc
ApplyTcDelta(tool_calls, tc) ==
    IF tc.index = NoIndex THEN tool_calls
    ELSE LET T == IF tc.index \in DOMAIN tool_calls THEN tool_calls
                  ELSE tool_calls @@ (tc.index :> NewSlot)
             slot == T[tc.index]
         IN [T EXCEPT ![tc.index] =
               [id |-> IF tc.id # "" THEN tc.id ELSE slot.id,
                name |-> IF tc.name # "" THEN tc.name ELSE slot.name,
                arguments |-> IF tc.arguments # <<>>
                              THEN slot.arguments \o tc.arguments
                              ELSE slot.arguments]]

RECURSIVE ApplyTcDeltas(_, _)
ApplyTcDeltas(tool_calls, tcs) ==
    IF tcs = <<>> THEN tool_calls
    ELSE ApplyTcDeltas(ApplyTcDelta(tool_calls, Head(tcs)), Tail(tcs))

\* the locals of stream_once before the first frame
DrvLocals == [buf |-> <<>>, tool_calls |-> <<>>, finish_reason |-> None,
              on_delta |-> <<>>]

\* ProcessFrame that does not look at the index of a tool-call delta
ProcessFrameOneSlot(L, f) ==
    LET L1 == [L EXCEPT !.finish_reason = IF f.finish # "" THEN f.finish ELSE @]
        L2 == IF f.content # ""
              THEN [L1 EXCEPT !.buf = Append(@, f.content),
                              !.on_delta = Append(@, f.content)]
              ELSE L1
    IN [L2 EXCEPT !.tool_calls =
          ApplyTcDeltas(@, [k \in 1..Len(f.tcs) |->
                              IF f.tcs[k].index = NoIndex THEN f.tcs[k]
                              ELSE [f.tcs[k] EXCEPT !.index = 0]])]

\* the body of the async for of stream_once below the cancellation check;
\* on_delta records the calls of the token callback
ProcessFrame(L, f) ==
    LET L1 == [L EXCEPT !.finish_reason = IF f.finish # "" THEN f.finish ELSE @]
        L2 == IF f.content # ""
              THEN [L1 EXCEPT !.buf = Append(@, f.content),
                              !.on_delta = Append(@, f.content)]
              ELSE L1
    IN [L2 EXCEPT !.tool_calls = ApplyTcDeltas(@, f.tcs)]

\* sorted(tool_calls.keys())
RECURSIVE Sorted(_)
Sorted(K) ==
    IF K = {} THEN <<>>
    ELSE LET m == CHOOSE x \in K : \A y \in K : x <= y
         IN <<m>> \o Sorted(K \ {m})

\* the two statements after the async for: the StreamResult
StreamResult(L) ==
    LET keys == Sorted(DOMAIN L.tool_calls)
    IN [assistant_text |-> L.buf,
        tool_calls |-> [k \in 1..Len(keys) |-> L.tool_calls[keys[k]]],
        finish_reason |-> L.finish_reason]

DrvIdle == [pc |-> "idle"]

\* stream_once has been called and awaits the first frame; cancel is the
\* state of cancel_event, recv the frames the async for has yielded
DrvCalled(cancel) ==
    [pc |-> "recv", cancel |-> cancel, L |-> DrvLocals, recv |-> <<>>,
     dropped |-> 0, result |-> None]

\* DrvFrame without the test of cancel_event
DrvFrameNoCheck(f) ==
    /\ drv.pc = "recv"
    /\ Len(drv.recv) + drv.dropped < MaxDrvFrames
    /\ drv' = [drv EXCEPT !.L = ProcessFrame(@, f), !.recv = Append(@, f)]
    /\ UNCHANGED <<ovars, loop, lk, wsh, hub>>

\* the async for yields a frame
DrvFrame(f) ==
    /\ drv.pc = "recv"
    /\ Len(drv.recv) + drv.dropped < MaxDrvFrames
    /\ drv' = IF drv.cancel
              THEN [drv EXCEPT !.pc = "returned", !.dropped = @ + 1,
                               !.result = StreamResult(drv.L)]
              ELSE [drv EXCEPT !.L = ProcessFrame(@, f),
                               !.recv = Append(@, f)]
    /\ UNCHANGED <<ovars, loop, lk, wsh, hub>>

\* the upstream stream ends ([DONE] or end of the response body)
DrvEnd ==
    /\ drv.pc = "recv"
    /\ drv' = [drv EXCEPT !.pc = "returned", !.result = StreamResult(drv.L)]
    /\ UNCHANGED <<ovars, loop, lk, wsh, hub>>

\* chat_completions_stream raises (OpenRouterError, a transport error)
DrvRaises ==
    /\ drv.pc = "recv"
    /\ drv' = [drv EXCEPT !.pc = "raised"]
    /\ UNCHANGED <<ovars, loop, lk, wsh, hub>>

\* cancel_event.set() by the orchestrator while stream_once is suspended
DrvCancel ==
    /\ drv.pc = "recv"
    /\ ~drv.cancel
    /\ drv' = [drv EXCEPT !.cancel = TRUE]
    /\ UNCHANGED <<ovars, loop, lk, wsh, hub>>


\* ---------------------------------------------------------- the tool loop
\* run_tool_loop_streaming as called by _run_generation (max_steps=10), with
\* stream_once as modelled above applied to a whole upstream stream at a
\* time and dispatch_tool_call by its outcome.

\* a message of msgs; a key the message does not have is None, <<>> for
\* tool_calls (the loop never appends an empty list of tool calls)
Msg(role, content, tool_calls, tool_call_id, name) ==
    [role |-> role, content |-> content, tool_calls |-> tool_calls,
     tool_call_id |-> tool_call_id, name |-> name]

\* a call of on_event
LoopEvent(type, text, tool, ok) ==
    [type |-> type, text |-> text, tool |-> tool, ok |-> ok]

\* tool_registry(): a filesystem tool and a skill tool stand for its keys
FsTools == {"fs_read"}
SkillTools == {"use_skill"}

\* the session_id parameter of dispatch_tool_call in the call the loop
\* makes, dispatch_tool_call(name, args): it keeps its default
LoopSessionId == None

\* dispatch_tool_call(name, args) as the loop calls it, without session_id:
\* an unknown name raises ToolNotFoundError, a skill tool raises
\* ToolStructuredError for want of a session, any other tool returns or
\* raises what its handler does.
DispatchOutcomes(name) ==
    IF name \notin FsTools \cup SkillTools THEN {"not_found"}
    ELSE IF name \in SkillTools THEN {"structured"}
    ELSE {"ok", "structured", "exception"}

\* the upstream streams the loop is checked with
OneCall == <<Frame("", <<TcDelta(0, "i", "fs_read", <<"x">>)>>, "")>>

LoopStreams ==
    { OneCall,
      <<>>,
      <<Frame("a", <<>>, "stop")>>,
      <<Frame("", <<TcDelta(1, "j", "use_skill", <<"y">>)>>, ""),
        Frame("", <<TcDelta(0, "i", "fs_read", <<"x">>)>>, "")>>,
      <<Frame("b", <<>>, ""), Frame("", <<TcDelta(0, "", "nope", <<>>)>>, "")>> }

\* stream_once over the frames it processes
RECURSIVE RunFrames(_, _)
RunFrames(L, fs) ==
    IF fs = <<>> THEN L ELSE RunFrames(ProcessFrame(L, Head(fs)), Tail(fs))

\* name = str(fn.get("name") or "")
ToolName(tc) == IF tc.name = None THEN "" ELSE tc.name

\* raw_args = fn.get("arguments") or "{}"
RawArgs(tc) == IF tc.arguments = <<>> THEN <<"{", "}">> ELSE tc.arguments

\* the locals of run_tool_loop_streaming when it awaits its first
\* stream_once; step counts the calls of stream_once made
LoopCalled(cancel) ==
    [pc |-> "stream", cancel |-> cancel, step |-> 0,
     msgs |-> <<Msg("user", <<"x">>, <<>>, None, None)>>,
     accumulated_final |-> <<>>, events |-> <<>>, result |-> <<>>, tci |-> 0,
     left |-> MaxVaried]

\* on_event tool.start for the tool call at position k of the step's result
EmitToolStart(l, k) ==
    [l EXCEPT !.events = Append(@, LoopEvent("tool.start", RawArgs(l.result[k]),
                                             ToolName(l.result[k]), TRUE)),
              !.tci = k, !.pc = "tool"]

\* LoopStream without the check of cancel_event after stream_once
LoopStreamNoCancelCheck(fs, n, c) ==
    /\ loop.pc = "stream"
    /\ n \in 0..Len(fs)
    /\ loop.cancel => (n = 0 /\ ~c)
    /\ (~loop.cancel /\ ~c) => n = Len(fs)
    /\ fs # OneCall => loop.left > 0
    /\ LET L == RunFrames(DrvLocals, SubSeq(fs, 1, n))
           r == StreamResult(L)
           l1 == [loop EXCEPT
                    !.step = @ + 1,
                    !.cancel = @ \/ c,
                    !.left = IF fs # OneCall THEN @ - 1 ELSE @,
                    !.accumulated_final = @ \o L.on_delta,
                    !.events = @ \o [k \in 1..Len(L.on_delta) |->
                                       LoopEvent("chat.delta", L.on_delta[k], "", TRUE)]]
       IN loop' =
            IF r.tool_calls # <<>>
            THEN EmitToolStart(
                   [l1 EXCEPT !.msgs = Append(@, Msg("assistant", r.assistant_text,
                                                     r.tool_calls, None, None)),
                              !.result = r.tool_calls], 1)
            ELSE [l1 EXCEPT !.msgs = Append(@, Msg("assistant", r.assistant_text,
                                                   <<>>, None, None)),
                            !.pc = "returned"]
    /\ UNCHANGED <<ovars, drv, lk, wsh, hub>>

\* One iteration of the for loop up to its first await of a tool: the call
\* of stream_once on the stream fs, of which n frames are processed; c says
\* that cancel_event is set while the call is suspended after those n.
LoopStream(fs, n, c) ==
    /\ loop.pc = "stream"
    /\ n \in 0..Len(fs)
    /\ loop.cancel => (n = 0 /\ ~c)
    /\ (~loop.cancel /\ ~c) => n = Len(fs)
    /\ fs # OneCall => loop.left > 0
    /\ LET L == RunFrames(DrvLocals, SubSeq(fs, 1, n))
           r == StreamResult(L)
           l1 == [loop EXCEPT
                    !.step = @ + 1,
                    !.cancel = @ \/ c,
                    !.left = IF fs # OneCall THEN @ - 1 ELSE @,
                    !.accumulated_final = @ \o L.on_delta,
                    !.events = @ \o [k \in 1..Len(L.on_delta) |->
                                       LoopEvent("chat.delta", L.on_delta[k], "", TRUE)]]
       IN loop' =
            IF l1.cancel THEN [l1 EXCEPT !.pc = "returned"]
            ELSE IF r.tool_calls # <<>>
            THEN EmitToolStart(
                   [l1 EXCEPT !.msgs = Append(@, Msg("assistant", r.assistant_text,
                                                     r.tool_calls, None, None)),
                              !.result = r.tool_calls], 1)
            ELSE [l1 EXCEPT !.msgs = Append(@, Msg("assistant", r.assistant_text,
                                                   <<>>, None, None)),
                            !.pc = "returned"]
    /\ UNCHANGED <<ovars, drv, lk, wsh, hub>>

\* chat_completions_stream raises inside stream_once: nothing catches it
LoopUpstreamRaises ==
    /\ loop.pc = "stream"
    /\ loop' = [loop EXCEPT !.pc = "raised", !.step = @ + 1]
    /\ UNCHANGED <<ovars, drv, lk, wsh, hub>>

\* LoopToolReturns in which a failed invocation leaves the loop
LoopToolAborts(o) ==
    /\ loop.pc = "tool"
    /\ o \in DispatchOutcomes(ToolName(loop.result[loop.tci]))
    /\ o # "ok" => loop.left > 0
    /\ LET tc == loop.result[loop.tci]
           l1 == [loop EXCEPT
                    !.left = IF o # "ok" THEN @ - 1 ELSE @,
                    !.events = Append(@, LoopEvent("tool.end", "", ToolName(tc), o = "ok")),
                    !.msgs = Append(@, Msg("tool", o, <<>>, tc.id, ToolName(tc)))]
       IN loop' = IF o # "ok" THEN [loop EXCEPT !.pc = "raised", !.left = @ - 1]
                  ELSE IF loop.tci < Len(loop.result)
                  THEN EmitToolStart(l1, loop.tci + 1)
                  ELSE IF loop.step < max_steps
                  THEN [l1 EXCEPT !.pc = "stream", !.result = <<>>, !.tci = 0]
                  ELSE [l1 EXCEPT !.pc = "returned"]
    /\ UNCHANGED <<ovars, drv, lk, wsh, hub>>

\* LoopToolReturns that goes to the next iteration after the first tool call
LoopToolReturnsFirstOnly(o) ==
    /\ loop.pc = "tool"
    /\ o \in DispatchOutcomes(ToolName(loop.result[loop.tci]))
    /\ o # "ok" => loop.left > 0
    /\ LET tc == loop.result[loop.tci]
           l1 == [loop EXCEPT
                    !.left = IF o # "ok" THEN @ - 1 ELSE @,
                    !.events = Append(@, LoopEvent("tool.end", "", ToolName(tc), o = "ok")),
                    !.msgs = Append(@, Msg("tool", o, <<>>, tc.id, ToolName(tc)))]
       IN loop' = IF loop.step < max_steps
                  THEN [l1 EXCEPT !.pc = "stream", !.result = <<>>, !.tci = 0]
                  ELSE [l1 EXCEPT !.pc = "returned"]
    /\ UNCHANGED <<ovars, drv, lk, wsh, hub>>

\* LoopToolReturns without the end of the for loop
LoopToolReturnsUnbounded(o) ==
    /\ loop.pc = "tool"
    /\ o \in DispatchOutcomes(ToolName(loop.result[loop.tci]))
    /\ o # "ok" => loop.left > 0
    /\ LET tc == loop.result[loop.tci]
           l1 == [loop EXCEPT
                    !.left = IF o # "ok" THEN @ - 1 ELSE @,
                    !.events = Append(@, LoopEvent("tool.end", "", ToolName(tc), o = "ok")),
                    !.msgs = Append(@, Msg("tool", o, <<>>, tc.id, ToolName(tc)))]
       IN loop' = IF loop.tci < Len(loop.result)
                  THEN EmitToolStart(l1, loop.tci + 1)
                  ELSE [l1 EXCEPT !.pc = "stream", !.result = <<>>, !.tci = 0]
    /\ UNCHANGED <<ovars, drv, lk, wsh, hub>>

\* LoopToolReturns that checks cancel_event after each tool call
LoopToolReturnsChecksCancel(o) ==
    /\ loop.pc = "tool"
    /\ o \in DispatchOutcomes(ToolName(loop.result[loop.tci]))
    /\ o # "ok" => loop.left > 0
    /\ LET tc == loop.result[loop.tci]
           l1 == [loop EXCEPT
                    !.left = IF o # "ok" THEN @ - 1 ELSE @,
                    !.events = Append(@, LoopEvent("tool.end", "", ToolName(tc), o = "ok")),
                    !.msgs = Append(@, Msg("tool", o, <<>>, tc.id, ToolName(tc)))]
       IN loop' = IF loop.cancel THEN [l1 EXCEPT !.pc = "returned"]
                  ELSE IF loop.tci < Len(loop.result)
                  THEN EmitToolStart(l1, loop.tci + 1)
                  ELSE IF loop.step < max_steps
                  THEN [l1 EXCEPT !.pc = "stream", !.result = <<>>, !.tci = 0]
                  ELSE [l1 EXCEPT !.pc = "returned"]
    /\ UNCHANGED <<ovars, drv, lk, wsh, hub>>

\* dispatch_tool_call returns or raises an Exception (outcome o): tool.end,
\* the tool message, then tool.start of the next tool call of the step, the
\* next iteration, or the end of the for loop.
LoopToolReturns(o) ==
    /\ loop.pc = "tool"
    /\ o \in DispatchOutcomes(ToolName(loop.result[loop.tci]))
    /\ o # "ok" => loop.left > 0
    /\ LET tc == loop.result[loop.tci]
           l1 == [loop EXCEPT
                    !.left = IF o # "ok" THEN @ - 1 ELSE @,
                    !.events = Append(@, LoopEvent("tool.end", "", ToolName(tc), o = "ok")),
                    !.msgs = Append(@, Msg("tool", o, <<>>, tc.id, ToolName(tc)))]
       IN loop' = IF loop.tci < Len(loop.result)
                  THEN EmitToolStart(l1, loop.tci + 1)
                  ELSE IF loop.step < max_steps
                  THEN [l1 EXCEPT !.pc = "stream", !.result = <<>>, !.tci = 0]
                  ELSE [l1 EXCEPT !.pc = "returned"]
    /\ UNCHANGED <<ovars, drv, lk, wsh, hub>>

\* cancel_event.set() by the orchestrator while a tool is awaited
LoopCancel ==
    /\ loop.pc = "tool"
    /\ ~loop.cancel
    /\ loop' = [loop EXCEPT !.cancel = TRUE]
    /\ UNCHANGED <<ovars, drv, lk, wsh, hub>>

\* Task.cancel(): CancelledError is raised at the await the loop is
\* suspended in; it is no Exception, so it leaves the loop.
LoopTaskCancelled ==
    /\ loop.pc \in {"stream", "tool"}
    /\ loop' = [loop EXCEPT !.pc = "raised"]
    /\ UNCHANGED <<ovars, drv, lk, wsh, hub>>

LoopIdle == [pc |-> "idle"]

\* ------------------------------------------------------ the session lock
\* ConversationModel at the grain of its lock: self.lock is an asyncio.Lock,
\* submit_user_message and the three terminal blocks of _run_generation
\* take it with "async with".  Every await of these coroutines is a point
\* at which the event loop may run another coroutine: the acquisition of the
\* lock and the await of _cancel_inflight_locked inside the locked block of
\* submit_user_message.  (CPython does not suspend at an await of a
\* coroutine that itself never suspends, so the program has no more
\* interleavings than these actions.)  The callbacks of the tool loop run
\* without the lock.
NoHolder == 0             \* the lock is not held
SubmitHolder(k) == 0 - k  \* the lock is held by the k-th submit call
KTokens == {"a"}

LkIdle == [holder |-> NoHolder, subs |-> <<>>, why |-> <<>>]

\* submit_user_message is called: the content is stripped, a blank content
\* returns at once, otherwise the call goes on to "async with self.lock"
KSubmitCall(rid, c) ==
    /\ UNCHANGED <<drv, loop, wsh, hub>>
    /\ budget.submits > 0
    /\ budget' = [budget EXCEPT !.submits = @ - 1]
    /\ lk' = [lk EXCEPT !.subs = Append(@,
                [rid |-> rid, content |-> Strip(c),
                 pc |-> IF Strip(c) = <<>> THEN "returned" ELSE "acquire"])]
    /\ UNCHANGED <<activeRun, runs, seen, tasks, transcript, emitted, sends,
                   conns, delivered>>

\* the k-th submit call gets the lock
KSubmitAcquire(k) ==
    /\ UNCHANGED <<ovars, drv, loop, wsh, hub>>
    /\ k \in 1..Len(lk.subs)
    /\ lk.subs[k].pc = "acquire"
    /\ lk.holder = NoHolder
    /\ lk' = [lk EXCEPT !.holder = SubmitHolder(k), !.subs[k].pc = "locked"]

\* submit_user_message from add_message to create_task, the end of the
\* locked block
SubmitRest(S, rid, content) ==
    LET S2 == AddMessage(S, "user", content, rid)
        S3 == [S2 EXCEPT !.runs = Append(@, NewActiveRun(rid)),
                         !.ar = Len(S2.runs) + 1,
                         !.seen = @ \cup {rid}]
    IN CreateSendTask(S3, Event("chat.started", rid, NoMsg, "", TRUE))

\* the locked block of submit_user_message up to its await: a replay is
\* acknowledged and the call returns; a run of another request id in the
\* slot is cancelled by _cancel_inflight_locked, which the call awaits;
\* without a run to supersede the block runs to its end.
KSubmitFirst(k) ==
    /\ UNCHANGED <<drv, loop, wsh, hub>>
    /\ k \in 1..Len(lk.subs)
    /\ lk.subs[k].pc = "locked"
    /\ UNCHANGED <<conns, delivered, budget>>
    /\ LET rid == lk.subs[k].rid IN
       IF IsReplay(rid)
       THEN /\ Commit(CreateSendTask(Store,
                        Event("chat.started", rid, NoMsg, "", TRUE)))
            /\ lk' = [lk EXCEPT !.holder = NoHolder, !.subs[k].pc = "returned"]
            /\ UNCHANGED tasks
       ELSE IF Supersedes(rid)
       THEN /\ Commit(CancelInflightLocked(Store, "new_message"))
            /\ lk' = [lk EXCEPT !.subs[k].pc = "second"]
            /\ UNCHANGED tasks
       ELSE /\ Commit(SubmitRest(Store, rid, lk.subs[k].content))
            /\ tasks' = Append(tasks, NewTask)
            /\ lk' = [lk EXCEPT !.holder = NoHolder, !.subs[k].pc = "returned",
                                !.why = Append(@, "")]

\* a submit call that, after cancelling the run, waits under the lock until
\* the task of every cancelled run has ended
KSubmitSecondAwaitsTask(k) ==
    /\ UNCHANGED <<drv, loop, wsh, hub>>
    /\ k \in 1..Len(lk.subs)
    /\ lk.subs[k].pc = "second"
    /\ \A i \in 1..Len(runs) :
         runs[i].status = "cancelled" => tasks[i].pc \in {"done", "cancelled"}
    /\ UNCHANGED <<conns, delivered, budget>>
    /\ Commit(SubmitRest(Store, lk.subs[k].rid, lk.subs[k].content))
    /\ tasks' = Append(tasks, NewTask)
    /\ lk' = [lk EXCEPT !.holder = NoHolder, !.subs[k].pc = "returned",
                        !.why = Append(@, "")]

\* the locked block of submit_user_message after _cancel_inflight_locked
\* has returned, to the release of the lock and the return
KSubmitSecond(k) ==
    /\ UNCHANGED <<drv, loop, wsh, hub>>
    /\ k \in 1..Len(lk.subs)
    /\ lk.subs[k].pc = "second"
    /\ UNCHANGED <<conns, delivered, budget>>
    /\ Commit(SubmitRest(Store, lk.subs[k].rid, lk.subs[k].content))
    /\ tasks' = Append(tasks, NewTask)
    /\ lk' = [lk EXCEPT !.holder = NoHolder, !.subs[k].pc = "returned",
                        !.why = Append(@, "")]

\* the task goes to the "async with self.lock" of one of its terminal
\* blocks: "done" after the loop has returned, "cancelled" in except
\* CancelledError, "error" in except Exception
KWantLock(i, why) ==
    /\ SetTask(i, "acquire", 0, 0, 0)
    /\ lk' = [lk EXCEPT !.why[i] = why]

\* first step of the task: messages_for_llm, then the tool loop is entered
KTaskStart(i) ==
    /\ UNCHANGED <<drv, loop, wsh, lk, hub>>
    /\ i \in 1..Len(tasks)
    /\ tasks[i].pc = "new"
    /\ SetTask(i, "stream", 0, 0, 0)
    /\ UNCHANGED <<activeRun, runs, seen, transcript, emitted, sends, conns,
                   delivered, budget>>

\* the call of the tool loop raises (as the two files stand, TypeError),
\* or the upstream call fails while the task streams: except Exception
KTaskRaises(i) ==
    /\ UNCHANGED <<drv, loop, wsh, hub>>
    /\ i \in 1..Len(tasks)
    /\ tasks[i].pc \in {"new", "stream"}
    /\ KWantLock(i, "error")
    /\ UNCHANGED <<activeRun, runs, seen, transcript, emitted, sends, conns,
                   delivered, budget>>

\* a frame with a text token arrives: with the cancellation signal set the
\* loop returns and the task goes to its completion block; otherwise
\* _on_chat_delta runs, without the lock
KStreamFrame(i, t) ==
    /\ UNCHANGED <<drv, loop, wsh, hub>>
    /\ i \in 1..Len(tasks)
    /\ tasks[i].pc = "stream"
    /\ budget.frames > 0
    /\ budget' = [budget EXCEPT !.frames = @ - 1]
    /\ UNCHANGED <<conns, delivered>>
    /\ IF runs[i].cancel
       THEN /\ KWantLock(i, "done")
            /\ UNCHANGED <<activeRun, runs, seen, transcript, emitted, sends>>
       ELSE /\ Commit(OnChatDelta(Store, runs[i].rid, t))
            /\ UNCHANGED <<tasks, lk>>

\* the upstream stream ends without tool calls: the loop returns
KStreamEnd(i) ==
    /\ UNCHANGED <<drv, loop, wsh, hub>>
    /\ i \in 1..Len(tasks)
    /\ tasks[i].pc = "stream"
    /\ KWantLock(i, "done")
    /\ UNCHANGED <<activeRun, runs, seen, transcript, emitted, sends, conns,
                   delivered, budget>>

\* Task.cancel() from outside.  A task that has not run yet ends without
\* entering its body; a task suspended in the loop, or at the lock of its
\* completion block (inside the try), goes to except CancelledError; a
\* task suspended at the lock of an except block ends with the
\* CancelledError, its terminal block not run.
KTaskCancel(i) ==
    /\ UNCHANGED <<drv, loop, wsh, hub>>
    /\ i \in 1..Len(tasks)
    /\ tasks[i].pc \in {"new", "stream", "acquire"}
    /\ budget.cancels > 0
    /\ budget' = [budget EXCEPT !.cancels = @ - 1]
    /\ UNCHANGED <<activeRun, runs, seen, transcript, emitted, sends, conns,
                   delivered>>
    /\ IF tasks[i].pc = "new" \/ (tasks[i].pc = "acquire" /\ lk.why[i] # "done")
       THEN SetTask(i, "cancelled", 0, 0, 0) /\ UNCHANGED lk
       ELSE KWantLock(i, "cancelled")

\* the task gets the lock
KTaskAcquire(i) ==
    /\ UNCHANGED <<drv, loop, wsh, hub>>
    /\ i \in 1..Len(tasks)
    /\ tasks[i].pc = "acquire"
    /\ lk.holder = NoHolder
    /\ SetTask(i, "locked", 0, 0, 0)
    /\ lk' = [lk EXCEPT !.holder = i]
    /\ UNCHANGED <<activeRun, runs, seen, transcript, emitted, sends, conns,
                   delivered, budget>>

\* the locked terminal block of the task, the release of the lock and the
\* end of the task
KTaskLocked(i) ==
    /\ UNCHANGED <<drv, loop, wsh, hub>>
    /\ i \in 1..Len(tasks)
    /\ tasks[i].pc = "locked"
    /\ SetTask(i, "done", 0, 0, 0)
    /\ lk' = [lk EXCEPT !.holder = NoHolder]
    /\ Commit(CASE lk.why[i] = "done" -> Finish(Store, runs[i].rid)
                 [] lk.why[i] = "cancelled" -> HandleCancelled(Store, runs[i].rid)
                 [] OTHER -> HandleException(Store, runs[i].rid))
    /\ UNCHANGED <<conns, delivered, budget>>

\* ------------------------------------------- the WebSocket session handler
\* api/ws_sessions.py: one ws_session coroutine of the session, the InFlight
\* record it shares with its run task, the rows it writes and the messages
\* it sends.  request_id is a local of ws_session; run_generation and
\* on_event are closures over it and read it when they send.
WsTypes == {"chat.send", "ping"}
WsTokens == {"a"}
WsMsgs == [type : WsTypes, requestId : RequestIds, content : Contents]

WsOut(type, rid, mid, text, via) ==
    [type |-> type, requestId |-> rid, mid |-> mid, text |-> text, via |-> via]

WsRow(role, content, meta) == [role |-> role, content |-> content, meta |-> meta]

\* asyncio.create_task(run_generation()): not yet started
WsNewTask == [pc |-> "new", must_cancel |-> FALSE, text |-> <<>>, ntools |-> 0]

\* InFlight() and the handler before its first receive_json
WsIdle ==
    [pc |-> "recv", request_id |-> None, content |-> <<>>,
     task |-> 0, tasks |-> <<>>, cancel_event |-> FALSE,
     assistant_message_id |-> NoMsg, assistant_text |-> <<>>,
     rows |-> <<>>, out |-> <<>>,
     msgs |-> MaxWsMsgs, frames |-> MaxWsFrames]

\* update_message_content(id, content, meta): the keys of meta are merged
\* into the row's meta; on is the set of keys set to True, off to False
WsUpdate(rows, mid, content, on, off) ==
    IF mid = NoMsg THEN rows
    ELSE [rows EXCEPT ![mid].content = content,
                      ![mid].meta = (@ \ off) \cup on]

\* st.task and not st.task.done()
WsTaskInFlight(w) == w.task # 0 /\ w.tasks[w.task].pc \notin {"done", "cancelled"}

\* ws_session from the reset of the InFlight fields to the await of
\* ws.send_json(chat.started): user row, assistant placeholder row
WsBegin(w) ==
    LET rows1 == Append(w.rows, WsRow("user", w.content, {}))
        rows2 == Append(rows1, WsRow("assistant", <<>>, {"streaming"}))
    IN [w EXCEPT !.cancel_event = FALSE,
                 !.assistant_text = <<>>,
                 !.rows = rows2,
                 !.assistant_message_id = Len(rows2),
                 !.out = Append(@, WsOut("chat.started", w.request_id, Len(rows2), "", "ws")),
                 !.pc = "send_started"]

\* ws_session from receive_json to its next await.  A message of another
\* type is answered with chat.error on this socket; a chat.send with blank
\* content is dropped; otherwise, under st.lock, a task in flight is
\* cancelled and awaited, and without one the new run is begun.
WsReceive(m) ==
    /\ UNCHANGED <<ovars, drv, loop, lk, hub>>
    /\ wsh.pc = "recv"
    /\ wsh.msgs > 0
    /\ LET w == [wsh EXCEPT !.msgs = @ - 1, !.request_id = m.requestId] IN
       IF m.type # "chat.send"
       THEN wsh' = [w EXCEPT !.out = Append(@, WsOut("chat.error", w.request_id,
                                                     NoMsg, "Unknown type", "ws")),
                             !.pc = "send_error"]
       ELSE IF Strip(m.content) = <<>>
       THEN wsh' = w
       ELSE LET v == [w EXCEPT !.content = Strip(m.content)] IN
            IF WsTaskInFlight(v)
            THEN wsh' = [v EXCEPT !.cancel_event = TRUE,
                                  !.tasks[v.task].must_cancel = TRUE,
                                  !.pc = "await_task"]
            ELSE wsh' = WsBegin(v)

\* "await st.task" returns or raises.  The task has handled CancelledError
\* in its own except block and ended normally: the partial text is
\* persisted with the cancelled marker, the system note is added and
\* chat.cancelled is sent through the hub.  The task was cancelled before
\* its first step, or inside its except Exception block: the await raises
\* CancelledError, which "except Exception" does not catch; it leaves
\* ws_session through the finally clause.
WsTaskAwaited ==
    /\ UNCHANGED <<ovars, drv, loop, lk, hub>>
    /\ wsh.pc = "await_task"
    /\ wsh.tasks[wsh.task].pc \in {"done", "cancelled"}
    /\ IF wsh.tasks[wsh.task].pc = "cancelled"
       THEN wsh' = [wsh EXCEPT !.pc = "raised"]
       ELSE LET rows1 == WsUpdate(wsh.rows, wsh.assistant_message_id,
                                  wsh.assistant_text, {"cancelled"}, {})
                rows2 == Append(rows1, WsRow("system",
                           <<"Generation cancelled (new user message).">>, {"cancel"}))
            IN wsh' = [wsh EXCEPT !.rows = rows2,
                         !.out = Append(@, WsOut("chat.cancelled", wsh.request_id,
                                                 NoMsg, "new_message", "hub")),
                         !.pc = "send_cancelled"]

\* an awaited send returns: after chat.error the handler receives again,
\* after chat.cancelled it begins the new run, after chat.started it
\* creates the task of the run and leaves the locked block
WsSent ==
    /\ UNCHANGED <<ovars, drv, loop, lk, hub>>
    /\ wsh.pc \in {"send_error", "send_cancelled", "send_started"}
    /\ wsh' = CASE wsh.pc = "send_error" -> [wsh EXCEPT !.pc = "recv"]
                [] wsh.pc = "send_cancelled" -> WsBegin(wsh)
                [] OTHER -> [wsh EXCEPT !.tasks = Append(@, WsNewTask),
                                        !.task = Len(wsh.tasks) + 1,
                                        !.pc = "recv"]

\* receive_json raises WebSocketDisconnect: the handler unregisters and
\* ends; its run task goes on
WsDisconnect ==
    /\ UNCHANGED <<ovars, drv, loop, lk, hub>>
    /\ wsh.pc = "recv"
    /\ wsh' = [wsh EXCEPT !.pc = "closed"]

\* on_event of run_generation: every event of the loop is sent through the
\* hub by a task of its own, with the request id the handler holds now
WsOnEvent(w, type, text) ==
    [w EXCEPT !.out = Append(@, WsOut(type, w.request_id, NoMsg, text, "hub"))]

\* first step of run_generation: messages_for_llm, the tool loop is entered
WsTaskStart(t) ==
    /\ UNCHANGED <<ovars, drv, loop, lk, hub>>
    /\ t \in 1..Len(wsh.tasks)
    /\ wsh.tasks[t].pc = "new" /\ ~wsh.tasks[t].must_cancel
    /\ wsh' = [wsh EXCEPT !.tasks[t].pc = "loop"]

\* the loop receives a text token
WsTaskFrame(t, tok) ==
    /\ UNCHANGED <<ovars, drv, loop, lk, hub>>
    /\ t \in 1..Len(wsh.tasks)
    /\ wsh.tasks[t].pc = "loop" /\ ~wsh.tasks[t].must_cancel
    /\ wsh.frames > 0
    /\ wsh' = WsOnEvent([wsh EXCEPT !.frames = @ - 1,
                                    !.tasks[t].text = Append(@, tok)],
                        "chat.delta", tok)

\* the loop starts a tool call (tool.start) and awaits its dispatch
WsTaskToolStart(t) ==
    /\ UNCHANGED <<ovars, drv, loop, lk, hub>>
    /\ t \in 1..Len(wsh.tasks)
    /\ wsh.tasks[t].pc = "loop" /\ ~wsh.tasks[t].must_cancel
    /\ wsh.tasks[t].ntools < MaxWsTools
    /\ wsh' = WsOnEvent([wsh EXCEPT !.tasks[t].pc = "tool"], "tool.start", "")

\* the tool call returns: tool.end, the tool message joins the loop's list
WsTaskToolEnd(t) ==
    /\ UNCHANGED <<ovars, drv, loop, lk, hub>>
    /\ t \in 1..Len(wsh.tasks)
    /\ wsh.tasks[t].pc = "tool" /\ ~wsh.tasks[t].must_cancel
    /\ wsh' = WsOnEvent([wsh EXCEPT !.tasks[t].pc = "loop",
                                    !.tasks[t].ntools = @ + 1], "tool.end", "")

\* the tool-call wrapper and tool rows of full_msgs[len(llm_msgs):]
RECURSIVE WsToolRows(_)
WsToolRows(n) ==
    IF n = 0 THEN <<>>
    ELSE WsToolRows(n - 1) \o <<WsRow("assistant", <<>>, {"tool_calls"}),
                                WsRow("tool", <<"result">>, {"name", "tool_call_id"})>>

\* the loop returns: the text becomes st.assistant_text; with the signal set
\* the partial is persisted with the cancelled marker and the task ends;
\* otherwise the placeholder row gets the text, the tool rows are added and
\* chat.done is sent through the hub
WsTaskLoopReturns(t) ==
    /\ UNCHANGED <<ovars, drv, loop, lk, hub>>
    /\ t \in 1..Len(wsh.tasks)
    /\ wsh.tasks[t].pc = "loop" /\ ~wsh.tasks[t].must_cancel
    /\ LET text == wsh.tasks[t].text IN
       IF wsh.cancel_event
       THEN wsh' = [wsh EXCEPT !.assistant_text = text,
                      !.rows = WsUpdate(wsh.rows, wsh.assistant_message_id, text,
                                        {"cancelled"}, {}),
                      !.tasks[t].pc = "done"]
       ELSE wsh' = [wsh EXCEPT !.assistant_text = text,
                      !.rows = WsUpdate(wsh.rows, wsh.assistant_message_id, text,
                                        {}, {"streaming"})
                               \o WsToolRows(wsh.tasks[t].ntools),
                      !.out = Append(@, WsOut("chat.done", wsh.request_id, NoMsg,
                                              "", "hub")),
                      !.tasks[t].pc = "send_done"]

\* the loop raises (the upstream call fails): except Exception sends
\* chat.error through the hub
WsTaskRaises(t) ==
    /\ UNCHANGED <<ovars, drv, loop, lk, hub>>
    /\ t \in 1..Len(wsh.tasks)
    /\ wsh.tasks[t].pc = "loop" /\ ~wsh.tasks[t].must_cancel
    /\ wsh' = [wsh EXCEPT !.out = Append(@, WsOut("chat.error", wsh.request_id,
                                                  NoMsg, "error", "hub")),
                          !.tasks[t].pc = "send_error"]

\* the awaited send of chat.done or chat.error returns: the task ends
WsTaskSent(t) ==
    /\ UNCHANGED <<ovars, drv, loop, lk, hub>>
    /\ t \in 1..Len(wsh.tasks)
    /\ wsh.tasks[t].pc \in {"send_done", "send_error"} /\ ~wsh.tasks[t].must_cancel
    /\ wsh' = [wsh EXCEPT !.tasks[t].pc = "done"]

\* the step of a task after Task.cancel().  A task that has not run yet
\* ends cancelled without entering run_generation, and so does one
\* suspended in the send of its except Exception block; a task suspended
\* inside the try gets CancelledError there: except CancelledError
\* persists st.assistant_text with the cancelled marker, adds the system
\* note, and the task ends normally.
WsTaskCancelled(t) ==
    /\ UNCHANGED <<ovars, drv, loop, lk, hub>>
    /\ t \in 1..Len(wsh.tasks)
    /\ wsh.tasks[t].must_cancel
    /\ wsh.tasks[t].pc \notin {"done", "cancelled"}
    /\ IF wsh.tasks[t].pc \in {"new", "send_error"}
       THEN wsh' = [wsh EXCEPT !.tasks[t].pc = "cancelled",
                               !.tasks[t].must_cancel = FALSE]
       ELSE wsh' = [wsh EXCEPT
                      !.rows = Append(WsUpdate(wsh.rows, wsh.assistant_message_id,
                                        wsh.assistant_text, {"cancelled"}, {"streaming"}),
                                      WsRow("system", <<"Generation cancelled.">>, {"cancel"})),
                      !.tasks[t].pc = "done",
                      !.tasks[t].must_cancel = FALSE]

\* ---------------------------------------------------- several sessions
\* conversation/hub.py, ConversationModel objects of several sessions and
\* ws/hub.py.  A row of the messages table belongs to the session given to
\* add_message and has a uuid of its own, so the table is one sequence of
\* rows per session and a message id is a position in it; the events are
\* kept per session id given to send.
Sessions == {"s1", "s2"}
Sockets == {"w1", "w2"}
MContents == {<<" ", "x">>}
\* every session is sent requests of the same id
MRequestIds == {"r1"}
NoInst == 0              \* _models.get(session_id) is None

\* ConversationModel.__init__: live is the set of its runs whose task has
\* not ended
NewInst(sid) == [sid |-> sid, ar |-> NoRun, runs |-> <<>>, seen |-> {}, live |-> {}]

HubIdle ==
    [models |-> [s \in Sessions |-> NoInst], insts |-> <<>>,
     tr |-> [s \in Sessions |-> <<>>], em |-> [s \in Sessions |-> <<>>],
     conns |-> [s \in Sessions |-> {}], route |-> [w \in Sockets |-> None],
     sends |-> <<>>, got |-> [w \in Sockets |-> <<>>],
     ops |-> MaxOpsM]

\* what the handlers of instance i read and write
InstStore(h, i) ==
    [ar |-> h.insts[i].ar, runs |-> h.insts[i].runs, seen |-> h.insts[i].seen,
     tr |-> h.tr[h.insts[i].sid], em |-> h.em[h.insts[i].sid]]

\* the result of a handler of instance i; every message added is a send
\* task, send(self.session_id, msg), created by asyncio.create_task
PutStore(h, i, S) ==
    LET sid == h.insts[i].sid IN
    [h EXCEPT !.insts[i].ar = S.ar, !.insts[i].runs = S.runs,
              !.insts[i].seen = S.seen,
              !.tr[sid] = S.tr, !.em[sid] = S.em,
              !.sends = @ \o [k \in 1..(Len(S.em) - Len(h.em[sid])) |->
                                [sid |-> sid, k |-> Len(h.em[sid]) + k,
                                 st |-> "new", targets |-> {}]]]

\* get_model(session_id): the object of the session is looked up, made and
\* stored if there is none, and returned.  asyncio.Lock.acquire does not
\* suspend when the lock is free and the locked block has no await, so the
\* lock is free whenever a coroutine calls get_model, and a call runs from
\* its start to its return without another coroutine running in between.
\* What it returns is the object models[s] of the next state.
MGetModel(s) ==
    /\ hub.ops > 0
    /\ LET h == IF hub.models[s] = NoInst
                THEN [hub EXCEPT !.insts = Append(@, NewInst(s)),
                                 !.models[s] = Len(hub.insts) + 1]
                ELSE hub
       IN hub' = [h EXCEPT !.ops = @ - 1]
    /\ UNCHANGED <<ovars, drv, loop, lk, wsh>>

\* the locked block of submit_user_message on the state S
SubmitIn(S, rid, c) ==
    LET content == Strip(c) IN
    IF content = <<>> THEN S
    ELSE IF rid \in S.seen /\ ~ActiveIs(S, rid)
    THEN CreateSendTask(S, Event("chat.started", rid, NoMsg, "", TRUE))
    ELSE IF S.ar # NoRun /\ S.runs[S.ar].status = "running" /\ S.runs[S.ar].rid # rid
    THEN SubmitRest(CancelInflightLocked(S, "new_message"), rid, content)
    ELSE SubmitRest(S, rid, content)

\* submit_user_message on the object i
MSubmit(i, rid, c) ==
    /\ i \in 1..Len(hub.insts)
    /\ hub.ops > 0
    /\ LET S == SubmitIn(InstStore(hub, i), rid, c)
           h == PutStore(hub, i, S)
       IN hub' = [h EXCEPT !.ops = @ - 1,
                           !.insts[i].live =
                               IF Len(S.runs) > Len(hub.insts[i].runs)
                               THEN @ \cup {Len(S.runs)} ELSE @]
    /\ UNCHANGED <<ovars, drv, loop, lk, wsh>>

\* a step of the task of run j of the object i: a text token reaches
\* _on_chat_delta, unless the cancellation signal is set
MToken(i, j, t) ==
    /\ i \in 1..Len(hub.insts)
    /\ j \in hub.insts[i].live
    /\ ~hub.insts[i].runs[j].cancel
    /\ hub.ops > 0
    /\ hub' = [PutStore(hub, i, OnChatDelta(InstStore(hub, i),
                                            hub.insts[i].runs[j].rid, t))
                 EXCEPT !.ops = @ - 1]
    /\ UNCHANGED <<ovars, drv, loop, lk, wsh>>

\* the tool loop of run j of the object i returns: the completion block
MFinish(i, j) ==
    /\ i \in 1..Len(hub.insts)
    /\ j \in hub.insts[i].live
    /\ hub' = [PutStore(hub, i, Finish(InstStore(hub, i), hub.insts[i].runs[j].rid))
                 EXCEPT !.insts[i].live = @ \ {j}]
    /\ UNCHANGED <<ovars, drv, loop, lk, wsh>>

\* the task of run j of the object i is cancelled inside the tool loop
MCancel(i, j) ==
    /\ i \in 1..Len(hub.insts)
    /\ j \in hub.insts[i].live
    /\ hub.ops > 0
    /\ hub' = [PutStore(hub, i, HandleCancelled(InstStore(hub, i),
                                                hub.insts[i].runs[j].rid))
                 EXCEPT !.insts[i].live = @ \ {j}, !.ops = @ - 1]
    /\ UNCHANGED <<ovars, drv, loop, lk, wsh>>

\* snapshot_view on the object i: it reads the active run under the lock
\* and the rows of its session, and assigns to nothing
MSnapshot(i) ==
    /\ i \in 1..Len(hub.insts)
    /\ hub.ops > 0
    /\ hub' = [hub EXCEPT !.ops = @ - 1]
    /\ UNCHANGED <<ovars, drv, loop, lk, wsh>>

\* ws/hub.py register(session_id, ws): a WebSocket is registered once, by
\* the handler that accepted it, for the session of its path
MRegister(s, w) ==
    /\ hub.route[w] = None
    /\ hub.ops > 0
    /\ hub' = [hub EXCEPT !.conns[s] = @ \cup {w}, !.route[w] = s,
                          !.ops = @ - 1]
    /\ UNCHANGED <<ovars, drv, loop, lk, wsh>>

\* ws/hub.py unregister(session_id, ws), by the same handler
MUnregister(w) ==
    /\ hub.route[w] # None
    /\ w \in hub.conns[hub.route[w]]
    /\ hub.ops > 0
    /\ hub' = [hub EXCEPT !.conns[hub.route[w]] = @ \ {w}, !.ops = @ - 1]
    /\ UNCHANGED <<ovars, drv, loop, lk, wsh>>

\* ws/hub.py send that lists the connections of every session
MSendStartAllConns(n) ==
    /\ n \in 1..Len(hub.sends)
    /\ hub.sends[n].st = "new"
    /\ \A m \in 1..(n - 1) : hub.sends[m].st # "new"
    /\ Cardinality({m \in 1..Len(hub.sends) : hub.sends[m].st = "run"}) < MaxSendsInFlightM
    /\ LET targets == UNION {hub.conns[s] : s \in Sessions}
       IN hub' = [hub EXCEPT !.sends[n].targets = targets,
                             !.sends[n].st = IF targets = {} THEN "done" ELSE "run"]
    /\ UNCHANGED <<ovars, drv, loop, lk, wsh>>

\* ws/hub.py send(session_id, msg), the locked block: the send tasks start
\* in the order of their creation and list _conns.get(session_id, set())
MSendStart(n) ==
    /\ n \in 1..Len(hub.sends)
    /\ hub.sends[n].st = "new"
    /\ \A m \in 1..(n - 1) : hub.sends[m].st # "new"
    /\ Cardinality({m \in 1..Len(hub.sends) : hub.sends[m].st = "run"}) < MaxSendsInFlightM
    /\ LET targets == hub.conns[hub.sends[n].sid]
       IN hub' = [hub EXCEPT !.sends[n].targets = targets,
                             !.sends[n].st = IF targets = {} THEN "done" ELSE "run"]
    /\ UNCHANGED <<ovars, drv, loop, lk, wsh>>

\* ws/hub.py send, one await ws.send_json(msg) of the for loop
MSendJson(n, w) ==
    /\ n \in 1..Len(hub.sends)
    /\ hub.sends[n].st = "run"
    /\ w \in hub.sends[n].targets
    /\ hub' = [hub EXCEPT
                 !.got[w] = Append(@, [sid |-> hub.sends[n].sid, k |-> hub.sends[n].k]),
                 !.sends[n].targets = @ \ {w},
                 !.sends[n].st = IF hub.sends[n].targets = {w} THEN "done" ELSE "run"]
    /\ UNCHANGED <<ovars, drv, loop, lk, wsh>>

\* ------------------------------------------------------- specifications
InitBudget(s, f, w) ==
    /\ activeRun = NoRun
    /\ runs = <<>>
    /\ seen = {}
    /\ tasks = <<>>
    /\ transcript = <<>>
    /\ emitted = <<>>
    /\ sends = <<>>
    /\ conns = {}
    /\ delivered = [c \in Clients |-> <<>>]
    /\ budget = [submits |-> s, frames |-> f, cancels |-> MaxCancels,
                 hub |-> MaxHubOps, work |-> w]

Init ==
    /\ InitBudget(MaxSubmits, MaxFrames, MaxWork)
    /\ drv = DrvIdle /\ loop = LoopIdle /\ lk = LkIdle /\ wsh = WsIdle /\ hub = HubIdle

TaskStep(i) ==
    \/ TaskStart(i)
    \/ TaskStartRaises(i)
    \/ \E f \in Frames : StreamFrame(i, f)
    \/ StreamEnd(i)
    \/ UpstreamFails(i)
    \/ \E ok \in BOOLEAN : ToolReturns(i, ok)

\* The orchestrator; the send tasks it creates are left unscheduled.
Next ==
    \/ \E rid \in RequestIds, c \in Contents : Submit(rid, c)
    \/ \E i \in 1..MaxSubmits : TaskStep(i)
    \/ \E i \in 1..MaxSubmits : ExternalCancel(i)

Spec == Init /\ [][Next]_vars

\* Every run task that can take a step eventually takes one: the event loop
\* is fair, the upstream stream ends and tools return.
FairSpec == Spec /\ \A i \in 1..MaxSubmits : WF_vars(TaskStep(i))

\* The orchestrator together with the delivery channel.
InitD ==
    /\ InitBudget(MaxSubmitsD, MaxFramesD, MaxWorkD)
    /\ drv = DrvIdle /\ loop = LoopIdle /\ lk = LkIdle /\ wsh = WsIdle /\ hub = HubIdle

NextD ==
    \/ \E rid \in RequestIds, c \in Contents : Submit(rid, c)
    \/ \E i \in 1..MaxSubmits : TaskStep(i)
    \/ \E i \in 1..MaxSubmits : ExternalCancel(i)
    \/ \E c \in Clients : Register(c)
    \/ \E c \in Clients : Unregister(c)
    \/ \E k \in 1..Len(sends) : SendStart(k)
    \/ \E k \in 1..Len(sends) : SendJson(k)

SpecD == InitD /\ [][NextD]_vars

\* The orchestrator with frames enough for a run to use up the step budget
\* of the tool loop: a submit arrives while no run is in the slot, the
\* upstream sends a text token only while a tool-call frame for each step
\* still to come is left, and tools succeed.
InitB ==
    /\ InitBudget(MaxSubmitsB, max_steps + MaxSpareFrames,
                  1 + max_steps + MaxSpareFrames)
    /\ drv = DrvIdle /\ loop = LoopIdle /\ lk = LkIdle /\ wsh = WsIdle /\ hub = HubIdle

NextB ==
    \/ \E rid \in RequestIds, c \in Contents : activeRun = NoRun /\ Submit(rid, c)
    \/ \E i \in 1..Len(tasks) : TaskStart(i)
    \/ \E i \in 1..Len(tasks), f \in Frames :
          /\ ~f.tool => budget.frames > max_steps - tasks[i].step
          /\ StreamFrame(i, f)
    \/ \E i \in 1..Len(tasks) : StreamEnd(i)
    \/ \E i \in 1..Len(tasks) : ToolReturns(i, TRUE)

SpecB == InitB /\ [][NextB]_vars

\* Several sessions: get_model calls, operations on the objects they
\* return, and the delivery of the events by ws/hub.py.
InitM ==
    /\ InitBudget(0, 0, 0)
    /\ drv = DrvIdle /\ loop = LoopIdle /\ lk = LkIdle /\ wsh = WsIdle /\ hub = HubIdle

\* an operation on the object i: a submit, a step or the end of a run task,
\* a cancellation or a snapshot
MInstOp(i) ==
    \/ \E rid \in MRequestIds, c \in MContents : MSubmit(i, rid, c)
    \/ \E j \in 1..MaxOpsM, t \in KTokens : MToken(i, j, t)
    \/ \E j \in 1..MaxOpsM : MFinish(i, j)
    \/ \E j \in 1..MaxOpsM : MCancel(i, j)
    \/ MSnapshot(i)

NextM ==
    \/ \E s \in Sessions : MGetModel(s)
    \/ \E i \in 1..MaxOpsM : MInstOp(i)
    \/ \E s \in Sessions, w \in Sockets : MRegister(s, w)
    \/ \E w \in Sockets : MUnregister(w)
    \/ \E n \in 1..Len(hub.sends) : MSendStart(n)
    \/ \E n \in 1..Len(hub.sends), w \in Sockets : MSendJson(n, w)

SpecM == InitM /\ [][NextM]_vars

\* One call of stream_once, the orchestrator idle.
InitS ==
    /\ InitBudget(0, 0, 0)
    /\ \E c \in BOOLEAN : drv = DrvCalled(c)
    /\ loop = LoopIdle /\ lk = LkIdle /\ wsh = WsIdle /\ hub = HubIdle

NextS ==
    \/ \E f \in DrvFrames : DrvFrame(f)
    \/ DrvEnd
    \/ DrvRaises
    \/ DrvCancel

SpecS == InitS /\ [][NextS]_vars

\* One call of run_tool_loop_streaming, the orchestrator idle.
InitL ==
    /\ InitBudget(0, 0, 0)
    /\ drv = DrvIdle /\ lk = LkIdle /\ wsh = WsIdle /\ hub = HubIdle
    /\ \E c \in BOOLEAN : loop = LoopCalled(c)

NextL ==
    \/ \E fs \in LoopStreams, n \in 0..2, c \in BOOLEAN : LoopStream(fs, n, c)
    \/ LoopUpstreamRaises
    \/ \E o \in {"ok", "structured", "exception", "not_found"} : LoopToolReturns(o)
    \/ LoopCancel
    \/ LoopTaskCancelled

SpecL == InitL /\ [][NextL]_vars

\* ConversationModel at the grain of its lock.
InitK ==
    /\ InitBudget(MaxSubmitsK, MaxFramesK, 0)
    /\ drv = DrvIdle /\ loop = LoopIdle /\ lk = LkIdle /\ wsh = WsIdle /\ hub = HubIdle

KSubmitStep(k) == KSubmitAcquire(k) \/ KSubmitFirst(k) \/ KSubmitSecond(k)

KTaskStep(i) ==
    \/ KTaskStart(i)
    \/ KTaskRaises(i)
    \/ \E t \in KTokens : KStreamFrame(i, t)
    \/ KStreamEnd(i)
    \/ KTaskAcquire(i)
    \/ KTaskLocked(i)

NextK ==
    \/ \E rid \in RequestIds, c \in Contents : KSubmitCall(rid, c)
    \/ \E k \in 1..MaxSubmitsK : KSubmitStep(k)
    \/ \E i \in 1..MaxSubmitsK : KTaskStep(i)
    \/ \E i \in 1..MaxSubmitsK : KTaskCancel(i)

SpecK == InitK /\ [][NextK]_vars

\* The event loop runs every coroutine that is ready: a submit call that
\* can take the lock or go on under it does so, and so does a run task; the
\* upstream stream ends.
FairSpecK ==
    /\ SpecK
    /\ \A k \in 1..MaxSubmitsK : WF_vars(KSubmitStep(k))
    /\ \A i \in 1..MaxSubmitsK : WF_vars(KTaskStep(i))

\* The WebSocket session handler and its run task.
InitW ==
    /\ InitBudget(0, 0, 0)
    /\ drv = DrvIdle /\ loop = LoopIdle /\ lk = LkIdle /\ wsh = WsIdle /\ hub = HubIdle

WsTaskStep(t) ==
    \/ WsTaskStart(t)
    \/ \E tok \in WsTokens : WsTaskFrame(t, tok)
    \/ WsTaskToolStart(t)
    \/ WsTaskToolEnd(t)
    \/ WsTaskLoopReturns(t)
    \/ WsTaskRaises(t)
    \/ WsTaskSent(t)
    \/ WsTaskCancelled(t)

NextW ==
    \/ \E m \in WsMsgs : WsReceive(m)
    \/ WsTaskAwaited
    \/ WsSent
    \/ WsDisconnect
    \/ \E t \in 1..MaxWsMsgs : WsTaskStep(t)

SpecW == InitW /\ [][NextW]_vars


\* ================================================================ claims
EventsOf(types, rid) ==
    {k \in 1..Len(emitted) : emitted[k].type \in types /\ emitted[k].rid = rid}

InLoop(i) == tasks[i].pc \in {"stream", "tool"}

\* position of event k in what client c has received, 0 when not received
RECURSIVE PosIn(_, _)
PosIn(seq, k) ==
    IF seq = <<>> THEN 0
    ELSE IF seq[Len(seq)] = k THEN Len(seq)
    ELSE PosIn(SubSeq(seq, 1, Len(seq) - 1), k)

\* the texts of the chat.delta events of request rid that reference message
\* mid, among the first n events, in the order of their emission
RECURSIVE DeltaText(_, _, _)
DeltaText(rid, mid, n) ==
    IF n = 0 THEN <<>>
    ELSE LET e == emitted[n]
         IN IF e.type = "chat.delta" /\ e.rid = rid /\ e.mid = mid
            THEN Append(DeltaText(rid, mid, n - 1), e.text)
            ELSE DeltaText(rid, mid, n - 1)

\* C1: at every instant at most one ActiveRun object of the session has
\* status running.
C1_AtMostOneRunning ==
    Cardinality({i \in 1..Len(runs) : runs[i].status = "running"}) <= 1

\* C2: for every request id at most one terminal event (chat.done,
\* run.error, run.cancelled) is ever emitted.
C2_AtMostOneTerminal ==
    \A r \in RequestIds : Cardinality(EventsOf(Terminal, r)) <= 1

\* A run was superseded by a newer submit and its task has then returned
\* from the tool loop.
C2_Witness ==
    \E i \in 1..Len(runs), k \in 1..Len(emitted) :
        /\ runs[i].status = "cancelled"
        /\ tasks[i].pc = "done"
        /\ emitted[k].type = "run.cancelled"
        /\ emitted[k].rid = runs[i].rid
        /\ emitted[k].text = "new_message"

\* C3: every request id acknowledged with chat.started eventually has a
\* terminal event emitted for it.
C3_StartedLeadsToTerminal ==
    \A r \in RequestIds :
        (EventsOf({"chat.started"}, r) # {}) ~> (EventsOf(Terminal, r) # {})

\* C4: a client listed as a target of both the run.cancelled of a superseded
\* run and the chat.started of the superseding submit receives the
\* run.cancelled first: once it has the chat.started it has the run.cancelled,
\* and earlier.
C4_CancelledBeforeStarted ==
    \A c \in Clients : \A k \in 1..(Len(emitted) - 1) :
        ( /\ emitted[k].type = "run.cancelled"
          /\ emitted[k].text = "new_message"
          /\ \E p \in 1..Len(sends[k].targets) : sends[k].targets[p] = c
          /\ PosIn(delivered[c], k + 1) # 0 )
        => ( /\ PosIn(delivered[c], k) # 0
             /\ PosIn(delivered[c], k) < PosIn(delivered[c], k + 1) )

\* C5: a request id submitted again while its run is active still has one
\* ActiveRun, one run task and one persisted user message.
C5_OneRunPerRequestId ==
    \A r \in RequestIds :
        /\ Cardinality({i \in 1..Len(runs) : runs[i].rid = r}) <= 1
        /\ Cardinality({m \in 1..Len(transcript) :
                          transcript[m].role = "user" /\ transcript[m].rid = r}) <= 1

\* C6: a submit of a request id already seen that is not the active run's
\* emits one chat.started acknowledgement and changes nothing else: no
\* transcript row, no ActiveRun, no task, and the active run is untouched.
C6_ReplayChangesNothing ==
    [][\A r \in RequestIds :
         ( /\ \E c \in Contents : Strip(c) # <<>> /\ Submit(r, c)
           /\ r \in seen
           /\ (activeRun = NoRun \/ runs[activeRun].rid # r) )
         => ( /\ emitted' = Append(emitted, Event("chat.started", r, NoMsg, "", TRUE))
              /\ UNCHANGED <<activeRun, runs, seen, tasks, transcript>> )]_vars

\* A replay was the last thing emitted, while the run of another request id
\* is active: the request id has more acknowledgements than runs.
C6_Witness ==
    /\ activeRun # NoRun
    /\ emitted # <<>>
    /\ LET e == emitted[Len(emitted)]
       IN /\ e.type = "chat.started" /\ e.mid = NoMsg
          /\ e.rid # runs[activeRun].rid
          /\ Cardinality({k \in EventsOf({"chat.started"}, e.rid) : emitted[k].mid = NoMsg})
               > Cardinality({i \in 1..Len(runs) : runs[i].rid = e.rid})

\* C7: at no instant are the run tasks of two different request ids both
\* inside the tool loop (awaiting the upstream stream or a tool).
C7_NoTwoTasksInLoop ==
    \A i, j \in 1..Len(tasks) :
        (i # j /\ runs[i].rid # runs[j].rid) => ~(InLoop(i) /\ InLoop(j))

\* C8: the events of a request id are ordered: chat.started first, every
\* tool.end after a tool.start of its own, and no chat.delta, tool.start,
\* tool.end, tool.output or chat.usage after the terminal event.
C8_StartedFirst ==
    \A r \in RequestIds : \A k \in 1..Len(emitted) :
        emitted[k].rid = r =>
            \E j \in 1..k : emitted[j].rid = r /\ emitted[j].type = "chat.started"
                            /\ \A h \in 1..(j - 1) : emitted[h].rid # r

C8_ToolEndAfterStart ==
    \A r \in RequestIds : \A k \in EventsOf({"tool.end"}, r) :
        Cardinality({j \in EventsOf({"tool.start"}, r) : j < k})
          >= Cardinality({j \in EventsOf({"tool.end"}, r) : j <= k})

C8_NothingAfterTerminal ==
    \A k, l \in 1..Len(emitted) :
        (k < l /\ emitted[k].type \in Terminal /\ emitted[l].rid = emitted[k].rid)
        => emitted[l].type \notin
             {"chat.delta", "tool.start", "tool.end", "tool.output", "chat.usage"}

C8_RunEventsOrdered ==
    C8_StartedFirst /\ C8_ToolEndAfterStart /\ C8_NothingAfterTerminal

\* C9: each client receives the chat.delta events of a request id in the
\* order of their emission.
C9_DeltasInOrder ==
    \A c \in Clients : \A a, b \in 1..Len(delivered[c]) :
        ( /\ a < b
          /\ emitted[delivered[c][a]].type = "chat.delta"
          /\ emitted[delivered[c][b]].type = "chat.delta"
          /\ emitted[delivered[c][a]].rid = emitted[delivered[c][b]].rid )
        => delivered[c][a] < delivered[c][b]

\* C10: for a run without tool calls that completed naturally, the content
\* persisted in its assistant message is the concatenation of the texts of
\* the chat.delta events emitted for it.
C10_DeltasEqualContent ==
    \A k \in 1..Len(emitted) :
        ( /\ emitted[k].type = "chat.done"
          /\ emitted[k].mid # NoMsg
          /\ EventsOf({"tool.start"}, emitted[k].rid) = {} )
        => transcript[emitted[k].mid].content
             = DeltaText(emitted[k].rid, emitted[k].mid, Len(emitted))

\* A run without tool calls completed after two different tokens.
C10_Witness ==
    \E k \in 1..Len(emitted) :
        /\ emitted[k].type = "chat.done"
        /\ emitted[k].mid # NoMsg
        /\ EventsOf({"tool.start"}, emitted[k].rid) = {}
        /\ transcript[emitted[k].mid].content = <<"a", "b">>

\* C11: for a run cancelled after it has streamed tokens, the content
\* persisted in its assistant message is the concatenation of the texts of
\* the chat.delta events emitted for that message before the run.cancelled
\* event, and no chat.delta for that message is emitted after it.
C11_CancelledContentIsDeltas ==
    \A i \in 1..Len(runs) :
        (runs[i].status = "cancelled" /\ runs[i].oa # NoMsg)
        => \E k \in EventsOf({"run.cancelled"}, runs[i].rid) :
             /\ transcript[runs[i].oa].content = DeltaText(runs[i].rid, runs[i].oa, k)
             /\ DeltaText(runs[i].rid, runs[i].oa, Len(emitted))
                  = DeltaText(runs[i].rid, runs[i].oa, k)

\* A run was superseded after it had streamed a token, and its task has
\* since received a further frame, found the cancellation signal set and
\* returned.
C11_Witness ==
    \E i \in 1..Len(runs) :
        /\ runs[i].status = "cancelled"
        /\ runs[i].oa # NoMsg
        /\ transcript[runs[i].oa].content # <<>>
        /\ tasks[i].pc = "done"
        /\ budget.frames = 0
        /\ Cardinality(EventsOf({"chat.delta"}, "r1") \cup EventsOf({"chat.delta"}, "r2")) = 1
        /\ EventsOf({"tool.start"}, "r1") \cup EventsOf({"tool.start"}, "r2") = {}

\* the types of the events of request rid among the first n, in order
RECURSIVE TypesOf(_, _)
TypesOf(rid, n) ==
    IF n = 0 THEN <<>>
    ELSE IF emitted[n].rid = rid THEN Append(TypesOf(rid, n - 1), emitted[n].type)
    ELSE TypesOf(rid, n - 1)

RowsOf(role, rid) ==
    {m \in 1..Len(transcript) : transcript[m].role = role /\ transcript[m].rid = rid}

\* the only run of its request id made one successful tool call, streamed
\* text and completed
ToolThenText(r) ==
    /\ Cardinality({i \in 1..Len(runs) : runs[i].rid = r}) = 1
    /\ Cardinality(EventsOf({"tool.start"}, r)) = 1
    /\ \E k \in EventsOf({"tool.end"}, r) : emitted[k].ok
    /\ EventsOf({"chat.delta"}, r) # {}
    /\ \A d \in EventsOf({"chat.delta"}, r), t \in EventsOf({"tool.end"}, r) : t < d
    /\ EventsOf({"chat.done"}, r) # {}

\* C12: for a run in which one tool call is made and then text is streamed,
\* the events emitted are, in order, chat.started, tool.start, tool.end,
\* one or more chat.delta, chat.done, and the transcript then holds exactly
\* one user row, one tool row and one assistant row for the request, the
\* assistant row holding the streamed text.
C12_ToolThenTextRun ==
    \A r \in RequestIds :
        ToolThenText(r) =>
            LET ty == TypesOf(r, Len(emitted))
            IN /\ Len(ty) >= 5
               /\ ty[1] = "chat.started" /\ ty[2] = "tool.start" /\ ty[3] = "tool.end"
               /\ \A p \in 4..(Len(ty) - 1) : ty[p] = "chat.delta"
               /\ ty[Len(ty)] = "chat.done"
               /\ Cardinality(RowsOf("user", r)) = 1
               /\ Cardinality(RowsOf("tool", r)) = 1
               /\ Cardinality(RowsOf("assistant", r)) = 1

\* the tool-call deltas of a sequence of frames, in arrival order
RECURSIVE DeltasOf(_)
DeltasOf(fs) ==
    IF fs = <<>> THEN <<>> ELSE Head(fs).tcs \o DeltasOf(Tail(fs))

\* the argument fragments addressed to index idx, concatenated in arrival order
RECURSIVE FragmentsFor(_, _)
FragmentsFor(idx, ds) ==
    IF ds = <<>> THEN <<>>
    ELSE (IF Head(ds).index = idx THEN Head(ds).arguments ELSE <<>>)
         \o FragmentsFor(idx, Tail(ds))

IndicesOf(ds) == {ds[k].index : k \in 1..Len(ds)} \ {NoIndex}

\* C14: when stream_once returns, its result has one tool call per index
\* addressed by a received fragment, in ascending index order, and the
\* arguments of each are the fragments addressed to its index concatenated
\* in arrival order, whatever was addressed to other indices in between.
C14_ArgumentsPerIndex ==
    drv.pc = "returned" =>
        LET ds == DeltasOf(drv.recv)
            I == IndicesOf(ds)
        IN /\ Len(drv.result.tool_calls) = Cardinality(I)
           /\ \A x \in I :
                drv.result.tool_calls[Cardinality({y \in I : y < x}) + 1].arguments
                  = FragmentsFor(x, ds)

\* Index 1 got its first fragment before index 0 got one, then a second one.
C14_Witness ==
    /\ drv.pc = "returned"
    /\ Len(drv.recv) = 3
    /\ LET ds == DeltasOf(drv.recv)
       IN /\ Len(ds) = 3
          /\ ds[1].index = 1 /\ ds[2].index = 0 /\ ds[3].index = 1
          /\ drv.result.tool_calls[1].arguments = <<"x">>
          /\ drv.result.tool_calls[2].arguments = <<"y", "x">>

\* the texts of a sequence of frames, in arrival order
RECURSIVE TextsOf(_)
TextsOf(fs) ==
    IF fs = <<>> THEN <<>>
    ELSE (IF Head(fs).content # "" THEN <<Head(fs).content>> ELSE <<>>)
         \o TextsOf(Tail(fs))

\* C20: a frame received while the cancellation signal is set is not
\* processed: the text, the tool-call slots and the calls of the token
\* callback stay as they were, and stream_once returns (it does not raise)
\* the text and the tool calls accumulated from the frames before.
C20_CancelledFrameNotProcessed ==
    [][(drv.pc = "recv" /\ drv.cancel /\ \E f \in DrvFrames : DrvFrame(f))
       => /\ drv'.pc = "returned"
          /\ drv'.L = drv.L
          /\ drv'.recv = drv.recv
          /\ drv'.result.assistant_text = TextsOf(drv.recv)
          /\ drv.L.on_delta = TextsOf(drv.recv)
          /\ Len(drv'.result.tool_calls) = Cardinality(IndicesOf(DeltasOf(drv.recv)))
          /\ \A x \in DOMAIN drv.L.tool_calls :
               \E k \in 1..Len(drv'.result.tool_calls) :
                   drv'.result.tool_calls[k] = drv.L.tool_calls[x]]_vars

\* The signal was set after a token and a tool-call fragment had been
\* processed; the next frame was received and the call returned.
C20_Witness ==
    /\ drv.pc = "returned"
    /\ drv.cancel
    /\ drv.dropped = 1
    /\ drv.result.assistant_text = <<"a">>
    /\ Len(drv.result.tool_calls) = 1
    /\ drv.result.tool_calls[1].arguments = <<"x">>

\* the positions in msgs of the assistant messages that carry tool calls
ToolCallMsgs ==
    {p \in 1..Len(loop.msgs) :
        loop.msgs[p].role = "assistant" /\ loop.msgs[p].tool_calls # <<>>}

\* the on_event calls of the given type, as positions in loop.events
LoopEventsOf(type) == {k \in 1..Len(loop.events) : loop.events[k].type = type}

\* C13: the tool calls of a step are invoked one at a time in the order of
\* their indices (in the streams checked, index 0 carries id "i" and index 1
\* id "j"); the tool messages follow the assistant message that carries the
\* calls, in that order, each with its call's id; while one is missing the
\* loop is invoking the next call in order, and no upstream call is made.
C13_ToolCallsInIndexOrder ==
    loop.pc # "idle" =>
      /\ \A p \in ToolCallMsgs :
           LET tcs == loop.msgs[p].tool_calls
               done == IF Len(loop.msgs) - p < Len(tcs) THEN Len(loop.msgs) - p
                       ELSE Len(tcs)
           IN /\ Len(tcs) = 2 => (tcs[1].id = "i" /\ tcs[2].id = "j")
              /\ \A k \in 1..done :
                   /\ loop.msgs[p + k].role = "tool"
                   /\ loop.msgs[p + k].tool_call_id = tcs[k].id
              /\ done < Len(tcs) =>
                   /\ loop.pc \in {"tool", "raised"}
                   /\ loop.tci = done + 1
                   /\ loop.result = tcs
      /\ loop.pc \in {"stream", "tool", "returned"} =>
           Cardinality(LoopEventsOf("tool.start"))
             = Cardinality(LoopEventsOf("tool.end")) + (IF loop.pc = "tool" THEN 1 ELSE 0)
      /\ \A k \in LoopEventsOf("tool.end") :
           k > 1 /\ loop.events[k - 1].type = "tool.start"
                 /\ loop.events[k - 1].tool = loop.events[k].tool

\* A step yielded two tool calls, index 1 arriving first; both results are
\* in the history and the next upstream call is being made.
C13_Witness ==
    /\ loop.pc = "stream"
    /\ loop.step = 1
    /\ Len(loop.msgs) = 4
    /\ Len(loop.msgs[2].tool_calls) = 2
    /\ loop.msgs[3].tool_call_id = "i"
    /\ loop.msgs[4].tool_call_id = "j"

FailedOutcomes == {"structured", "exception", "not_found"}

\* C15: when the invocation of a tool fails (ToolStructuredError, another
\* Exception, ToolNotFoundError for an unknown name), the loop does not
\* raise: it emits tool.end with ok false, appends the tool message with the
\* call's id, and goes on with the next tool call of the step, or with the
\* next iteration when the call was the step's last.
C15_FailedToolDoesNotAbort ==
    [][\A o \in FailedOutcomes :
         (loop.pc = "tool" /\ LoopToolReturns(o)) =>
           LET tc == loop.result[loop.tci]
               e == loop'.events[Len(loop.events) + 1]
               m == loop'.msgs[Len(loop.msgs) + 1]
           IN /\ loop'.pc # "raised"
              /\ e.type = "tool.end" /\ ~e.ok /\ e.tool = ToolName(tc)
              /\ Len(loop'.msgs) = Len(loop.msgs) + 1
              /\ m.role = "tool" /\ m.tool_call_id = tc.id
              /\ loop.tci < Len(loop.result) =>
                   (loop'.pc = "tool" /\ loop'.tci = loop.tci + 1)
              /\ (loop.tci = Len(loop.result) /\ loop.step < max_steps) =>
                   loop'.pc = "stream"]_vars

\* The call of an unknown tool failed, the loop made another upstream call
\* and is now invoking a tool of that later step.
C15_Witness ==
    /\ loop.pc = "tool"
    /\ \E k \in LoopEventsOf("tool.end") :
         /\ ~loop.events[k].ok
         /\ loop.events[k].tool = "nope"
         /\ \E j \in LoopEventsOf("tool.start") : j > k
    /\ \E p \in 1..Len(loop.msgs) : loop.msgs[p].content = "structured"

\* the texts of the chat.delta calls of on_event, in order
RECURSIVE LoopDeltaText(_)
LoopDeltaText(n) ==
    IF n = 0 THEN <<>>
    ELSE IF loop.events[n].type = "chat.delta"
    THEN Append(LoopDeltaText(n - 1), loop.events[n].text)
    ELSE LoopDeltaText(n - 1)

TaskGetsException(i) == TaskStartRaises(i) \/ UpstreamFails(i)

Blank(c) == \A k \in 1..Len(c) : c[k] = " "

Last(K) == IF K = {} THEN 0 ELSE CHOOSE x \in K : \A y \in K : y <= x

\* the tokens of the current segment of request rid with message mid: the
\* texts of the chat.delta events that reference the message, emitted after
\* the last tool event of the request
RECURSIVE SegmentText(_, _, _)
SegmentText(rid, mid, n) ==
    IF n <= Last(EventsOf({"tool.start", "tool.end"}, rid)) THEN <<>>
    ELSE IF emitted[n].type = "chat.delta" /\ emitted[n].rid = rid
            /\ emitted[n].mid = mid
    THEN Append(SegmentText(rid, mid, n - 1), emitted[n].text)
    ELSE SegmentText(rid, mid, n - 1)

StartedWithId(rid) ==
    {k \in EventsOf({"chat.started"}, rid) : emitted[k].mid # NoMsg}

\* C22: once the only run of a request id has received its first token,
\* the transcript holds exactly one assistant row for the request, the run's
\* open segment is that row, exactly one chat.started carrying that id has
\* been emitted, before the first chat.delta, and every chat.delta of the
\* request references that id.
C22_OneRowOneStartedOnFirstToken ==
    \A i \in 1..Len(runs) :
        ( /\ runs[i].oa # NoMsg
          /\ Cardinality({j \in 1..Len(runs) : runs[j].rid = runs[i].rid}) = 1 )
        => LET r == runs[i].rid
           IN /\ RowsOf("assistant", r) = {runs[i].oa}
              /\ Cardinality(StartedWithId(r)) = 1
              /\ \A k \in StartedWithId(r) :
                   /\ emitted[k].mid = runs[i].oa
                   /\ \A d \in EventsOf({"chat.delta"}, r) : k < d
              /\ \A d \in EventsOf({"chat.delta"}, r) : emitted[d].mid = runs[i].oa


\* C23: while the task of the running run in the slot waits for a tool call
\* (its tool.start has been emitted), the run has no open segment, and every
\* assistant message that chat.delta events of the request referenced before
\* that tool.start holds the text of those deltas in the transcript.
C23_SegmentClosedAtToolBoundary ==
    \A i \in 1..Len(runs) :
        ( /\ tasks[i].pc = "tool"
          /\ activeRun = i
          /\ runs[i].status = "running"
          /\ Cardinality({j \in 1..Len(runs) : runs[j].rid = runs[i].rid}) = 1 )
        => /\ runs[i].oa = NoMsg
           /\ \A d \in EventsOf({"chat.delta"}, runs[i].rid) :
                transcript[emitted[d].mid].content
                  = DeltaText(runs[i].rid, emitted[d].mid, Len(emitted))


\* C24: emitting tool.start adds no transcript row, and the transcript holds
\* exactly one tool-result row for every tool call that has finished
\* (tool.end emitted) in a request with a single run.
C24_OneToolRowPerFinishedCall ==
    /\ \A i \in 1..Len(tasks) :
         tasks[i].pc = "tool" /\ runs[i].status = "running" /\ activeRun = i
         => Cardinality(RowsOf("tool", runs[i].rid)) = tasks[i].tci - 1
    /\ \A r \in RequestIds :
         Cardinality({j \in 1..Len(runs) : runs[j].rid = r}) = 1
         => Cardinality(RowsOf("tool", r))
              = Cardinality(EventsOf({"tool.end"}, r))


\* a step in which the tool loop of task i returns normally
NaturalCompletion(i) ==
    (StreamEnd(i) \/ \E ok \in BOOLEAN : ToolReturns(i, ok)) /\ tasks'[i].pc = "done"

\* the chat.delta events of the run that the latest submit of rid created:
\* those emitted after the chat.started of that submit
RunDeltas(rid) ==
    {d \in EventsOf({"chat.delta"}, rid) :
       d > Last({k \in EventsOf({"chat.started"}, rid) : emitted[k].mid = NoMsg})}

\* C25: when the tool loop of the task of the run in the slot returns
\* normally, the run gets status done, the slot is cleared, the last event
\* emitted is chat.done; it carries no message id exactly when the run
\* emitted no chat.delta, and otherwise the id of the message the run's last
\* chat.delta referenced, an assistant row whose content is then the text of
\* the run's deltas.
C25_CompletionFinalisesRun ==
    [][\A i \in 1..Len(tasks) :
         (NaturalCompletion(i) /\ activeRun = i) =>
           LET r == runs[i].rid
               ds == RunDeltas(r)
               done == emitted'[Len(emitted')]
           IN /\ runs'[i].status = "done"
              /\ activeRun' = NoRun
              /\ Len(emitted') > Len(emitted)
              /\ done.type = "chat.done" /\ done.rid = r
              /\ (done.mid = NoMsg) <=> (ds = {})
              /\ ds # {} =>
                   /\ done.mid = emitted[Last(ds)].mid
                   /\ transcript'[done.mid].role = "assistant"
                   /\ transcript'[done.mid].content = DeltaText(r, done.mid, Len(emitted))
                   /\ \A d \in ds : emitted[d].mid = done.mid]_vars

\* Two runs have completed naturally, one that streamed text and one that
\* streamed none: chat.done of the first carries the id of its assistant
\* message, whose row holds the text; chat.done of the second carries none.
C25_Witness ==
    \E k, l \in EventsOf({"chat.done"}, "r1") \cup EventsOf({"chat.done"}, "r2") :
        /\ emitted[k].mid # NoMsg
        /\ transcript[emitted[k].mid].content = <<"a">>
        /\ emitted[l].mid = NoMsg
        /\ \A i \in 1..Len(runs) : runs[i].status = "done"
        /\ Len(runs) = 2
        /\ activeRun = NoRun


\* C26: for a run in status error that had streamed tokens, the assistant
\* message of its segment holds, in the transcript, the text of the
\* chat.delta events emitted for it.
C26_ErrorKeepsStreamedText ==
    \A i \in 1..Len(runs) :
        (runs[i].status = "error" /\ runs[i].oa # NoMsg)
        => transcript[runs[i].oa].content
             = DeltaText(runs[i].rid, runs[i].oa, Len(emitted))


\* C28: a step changes the status of a run only from running to done, error
\* or cancelled, and a step of the task of one run changes the status of no
\* other run.
C28_StatusOnlyRunningToTerminal ==
    [][ /\ \A j \in 1..Len(runs) :
             runs'[j].status # runs[j].status
             => /\ runs[j].status = "running"
                /\ runs'[j].status \in {"done", "error", "cancelled"}
        /\ \A i \in 1..Len(tasks) :
             TaskStep(i) => \A j \in 1..Len(runs) :
                              j # i => runs'[j].status = runs[j].status ]_vars


\* C29: in every state between two steps the active-run slot is empty or
\* holds a run with status running and no end time; a run with a terminal
\* status is not in the slot, has an end time, and the snapshot reports an
\* active run only with status running.
C29_SlotHoldsOnlyRunningRun ==
    /\ activeRun # NoRun =>
         /\ runs[activeRun].status = "running"
         /\ runs[activeRun].ended_at = "None"
    /\ \A j \in 1..Len(runs) :
         runs[j].status \in {"done", "error", "cancelled"}
         => activeRun # j /\ runs[j].ended_at = "now"
    /\ \A k \in 1..Len(SnapshotView.activeRun) :
         SnapshotView.activeRun[k].status = "running"

\* One run has completed and has left the slot, and a run submitted
\* afterwards is running in the slot, its task in the tool loop.
C29_Witness ==
    /\ Len(runs) = 2
    /\ runs[1].status = "done"
    /\ runs[1].ended_at = "now"
    /\ runs[2].rid # runs[1].rid
    /\ activeRun = 2
    /\ runs[2].status = "running"
    /\ tasks[2].pc = "stream"


\* the request id the next event of the run task would carry
NextEventId(w) ==
    LET o == WsOnEvent(w, "chat.delta", "a").out IN o[Len(o)].requestId

\* C21: a step in which the handler receives a message whose type is not
\* chat.send sends chat.error with the message's request id on the socket
\* and changes nothing else: no task is cancelled or created, the
\* cancellation signal, the assistant message id and text and the rows are
\* unchanged, and a run in flight goes on under its own request id.
C21_OtherTypeRejectedNothingChanged ==
    [][\A m \in WsMsgs :
         (m.type # "chat.send" /\ WsReceive(m)) =>
           /\ wsh'.out = Append(wsh.out, WsOut("chat.error", m.requestId, NoMsg,
                                               "Unknown type", "ws"))
           /\ wsh'.tasks = wsh.tasks /\ wsh'.task = wsh.task
           /\ wsh'.cancel_event = wsh.cancel_event
           /\ wsh'.assistant_message_id = wsh.assistant_message_id
           /\ wsh'.assistant_text = wsh.assistant_text
           /\ wsh'.rows = wsh.rows
           /\ WsTaskInFlight(wsh) => NextEventId(wsh') = NextEventId(wsh)]_vars


\* the system rows the WebSocket handler and its tasks have written
WsSystemRows == {m \in 1..Len(wsh.rows) : wsh.rows[m].role = "system"}

\* C27: a cancelled run that had an open segment has the text of its
\* chat.delta events in the transcript row of that message, with the
\* cancelled marker, and exactly one system row notes the cancellation.
\* For the orchestrator: the row of the segment holds the delta text and the
\* transcript holds one system row per cancelled run.  For the WebSocket
\* handler, once it has sent chat.cancelled for a superseded run: the
\* assistant row of that run carries the cancelled marker and the tokens the
\* run's task received, and there is one system row per chat.cancelled.
C27_CancelledSegmentMarkedAndNotedOnce ==
    /\ \A i \in 1..Len(runs) :
         (runs[i].status = "cancelled" /\ runs[i].oa # NoMsg)
         => /\ transcript[runs[i].oa].content
                 = DeltaText(runs[i].rid, runs[i].oa, Len(emitted))
            /\ Cardinality({m \in 1..Len(transcript) : transcript[m].role = "system"})
                 = Cardinality({j \in 1..Len(runs) : runs[j].status = "cancelled"})
    /\ wsh.pc = "send_cancelled"
         => /\ "cancelled" \in wsh.rows[wsh.assistant_message_id].meta
            /\ wsh.rows[wsh.assistant_message_id].content = wsh.tasks[wsh.task].text
            /\ Cardinality(WsSystemRows)
                 = Cardinality({k \in 1..Len(wsh.out) : wsh.out[k].type = "chat.cancelled"})


\* C30: every submit call returns and leaves the lock free.  A call holds the
\* lock only inside its locked block and a task only inside its terminal
\* block; and, the calls of a behaviour being finitely many and a return
\* being final, from some point on every call made has returned and the
\* lock is free.
C30_SubmitReleasesLockAndReturns ==
    /\ [](\A k \in 1..Len(lk.subs) :
            lk.holder = SubmitHolder(k) <=> lk.subs[k].pc \in {"locked", "second"})
    /\ [](\A i \in 1..Len(tasks) : lk.holder = i <=> tasks[i].pc = "locked")
    /\ <>[]( /\ lk.holder = NoHolder
             /\ \A k \in 1..Len(lk.subs) : lk.subs[k].pc = "returned" )

\* A submit call holds the lock and has just cancelled the run in the slot,
\* while the task of that run waits for the same lock to enter its
\* terminal block.
C30_Witness ==
    \E k \in 1..Len(lk.subs), i \in 1..Len(tasks) :
        /\ lk.holder = SubmitHolder(k)
        /\ lk.subs[k].pc = "second"
        /\ tasks[i].pc = "acquire"
        /\ runs[i].status = "cancelled"
        /\ runs[i].rid # lk.subs[k].rid


\* C31: every step that changes a run record (status, open segment, buffer,
\* tool metadata), the active-run slot or the idempotency records is a step
\* of a coroutine that holds the lock when it takes the step.
C31_MutationOnlyUnderLock ==
    [][(runs' # runs \/ activeRun' # activeRun \/ seen' # seen)
         => lk.holder # NoHolder]_vars


\* C32: when a submit call that has cancelled the run in the slot goes on to
\* append the user row, the row of every cancelled run's segment already
\* holds the text of its chat.delta events, and the step appends exactly
\* the user row; and no step of the task of a cancelled run changes the
\* transcript.
C32_OldRunWritesBeforeNewUserRow ==
    [][ /\ \A k \in 1..Len(lk.subs) :
             KSubmitSecond(k) =>
               /\ \A i \in 1..Len(runs) :
                    (runs[i].status = "cancelled" /\ runs[i].oa # NoMsg)
                    => transcript[runs[i].oa].content
                         = DeltaText(runs[i].rid, runs[i].oa, Len(emitted))
               /\ transcript' = Append(transcript,
                    [role |-> "user", content |-> lk.subs[k].content,
                     rid |-> lk.subs[k].rid])
        /\ \A i \in 1..Len(tasks) :
             (KTaskStep(i) /\ runs[i].status = "cancelled")
             => transcript' = transcript ]_vars

\* A run that had streamed a token was superseded: its segment's row holds
\* the token, the user row of the new request comes after it, the new run
\* is in the slot, and the old task has since left the tool loop and run its
\* completion block.
C32_Witness ==
    \E i, j \in 1..Len(runs) :
        /\ i < j
        /\ runs[i].status = "cancelled"
        /\ runs[i].oa # NoMsg
        /\ transcript[runs[i].oa].content = <<"a">>
        /\ runs[j].rid # runs[i].rid
        /\ activeRun = j
        /\ tasks[i].pc = "done"
        /\ lk.why[i] = "done"
        /\ \E m \in 1..Len(transcript) :
             /\ m > runs[i].oa
             /\ transcript[m].role = "user" /\ transcript[m].rid = runs[j].rid


\* C33: a step that cancels, from outside, the task of the running run held
\* in the active-run slot leaves that run cancelled with an end time and its
\* cancellation signal set, the row of its open segment holding the
\* buffered text, exactly one further event, a run.cancelled of its request
\* id, emitted, and the slot empty.
C33_ExternalCancelEndsRunCancelled ==
    [][ \A i \in 1..Len(tasks) :
          (ExternalCancel(i) /\ activeRun = i /\ runs[i].status = "running")
          => /\ runs'[i].status = "cancelled"
             /\ runs'[i].ended_at = "now"
             /\ runs'[i].cancel
             /\ runs[i].oa # NoMsg
                  => transcript'[runs[i].oa].content = runs[i].buf
             /\ Len(emitted') = Len(emitted) + 1
             /\ emitted'[Len(emitted')].type = "run.cancelled"
             /\ emitted'[Len(emitted')].rid = runs[i].rid
             /\ activeRun' = NoRun ]_vars


\* C34: a step of the tool loop in which stream_once returns with the
\* cancellation signal set appends nothing to the history and starts no
\* tool call, and the loop has then returned, with the text of all its
\* chat.delta events; a loop that has returned makes no further upstream
\* call.
C34_CancelledStepReturnsAtOnce ==
    /\ [][(loop.pc = "stream" /\ loop'.pc # "raised" /\ loop'.cancel)
            => /\ loop'.pc = "returned"
               /\ loop'.msgs = loop.msgs
               /\ \A k \in (Len(loop.events) + 1)..Len(loop'.events) :
                    loop'.events[k].type = "chat.delta"]_vars
    /\ [][loop.pc = "returned" => loop'.step = loop.step]_vars
    /\ []((loop.pc = "returned" /\ loop.cancel)
            => loop.accumulated_final = LoopDeltaText(Len(loop.events)))

\* The signal was set while the first stream_once was suspended after a
\* frame with the token b: the loop has returned b after one upstream call,
\* the history as it was given and no tool started.
C34_Witness ==
    /\ loop.pc = "returned"
    /\ loop.cancel
    /\ loop.step = 1
    /\ loop.accumulated_final = <<"b">>
    /\ loop.msgs = LoopCalled(FALSE).msgs
    /\ LoopEventsOf("tool.start") = {}


\* C35: with the cancellation signal set during the tool phase of a step,
\* the invocation in progress still ends with its tool.end and its tool
\* message appended to the history, the next tool call of the step, if
\* any, is started, and after the last one the loop goes to its next
\* iteration unless the step budget is used up; the loop returns for the
\* signal only from the stream_once call of that next iteration.
C35_CancelTakesEffectAfterToolPhase ==
    [][(loop.pc = "tool" /\ loop.cancel /\ loop'.pc # "raised")
         => /\ Len(loop'.msgs) = Len(loop.msgs) + 1
            /\ loop'.msgs[Len(loop'.msgs)].role = "tool"
            /\ loop'.msgs[Len(loop'.msgs)].tool_call_id = loop.result[loop.tci].id
            /\ loop'.events[Len(loop'.events)].type
                 = IF loop.tci < Len(loop.result) THEN "tool.start" ELSE "tool.end"
            /\ loop'.pc = IF loop.tci < Len(loop.result) THEN "tool"
                          ELSE IF loop.step < max_steps THEN "stream"
                          ELSE "returned"
            /\ loop'.step = loop.step]_vars

\* The signal was set during the tool phase of the first step, which had
\* two tool calls: both tool messages are in the history and the loop is
\* at its second call of stream_once.
C35_Witness ==
    /\ loop.pc = "stream"
    /\ loop.cancel
    /\ loop.step = 1
    /\ Cardinality({p \in 1..Len(loop.msgs) : loop.msgs[p].role = "tool"}) = 2
    /\ Cardinality(LoopEventsOf("tool.end")) = 2


\* C36: the step in which the last tool call of the max_steps-th step
\* returns, for the run in the active-run slot, ends that run as done with
\* an end time, empties the slot and emits, after the tool.end, one
\* chat.done of the run's request id as the last event.
C36_ExhaustedBudgetEndsAsDone ==
    [][ \A i \in 1..Len(tasks) :
          ( /\ \E ok \in BOOLEAN : ToolReturns(i, ok)
            /\ tasks[i].tci = tasks[i].ntc
            /\ tasks[i].step + 1 = max_steps
            /\ activeRun = i )
          => /\ runs'[i].status = "done"
             /\ runs'[i].ended_at = "now"
             /\ activeRun' = NoRun
             /\ tasks'[i].pc = "done"
             /\ Len(emitted') = Len(emitted) + 2
             /\ emitted'[Len(emitted) + 1].type = "tool.end"
             /\ emitted'[Len(emitted) + 2].type = "chat.done"
             /\ emitted'[Len(emitted) + 2].rid = runs[i].rid ]_vars


\* A run whose max_steps steps all requested a tool call has ended: it is
\* done, the slot is empty and chat.done is the last event.
C36_Witness ==
    \E i \in 1..Len(tasks) :
        /\ tasks[i].pc = "done"
        /\ tasks[i].step = max_steps
        /\ runs[i].status = "done"
        /\ activeRun = NoRun
        /\ Cardinality(EventsOf({"tool.end"}, runs[i].rid)) = max_steps
        /\ emitted[Len(emitted)].type = "chat.done"
        /\ emitted[Len(emitted)].rid = runs[i].rid


\* C37: once the slot of an index has a function name, no later frame
\* changes that name, while the argument text the frame carries for the
\* index is appended to the slot's arguments.
C37_NameSetOnce ==
    [][ \A x \in DOMAIN drv.L.tool_calls :
          (drv.pc = "recv" /\ drv'.pc = "recv" /\ Len(drv'.recv) = Len(drv.recv) + 1
             /\ drv.L.tool_calls[x].name # None)
          => /\ drv'.L.tool_calls[x].name = drv.L.tool_calls[x].name
             /\ drv'.L.tool_calls[x].arguments
                  = drv.L.tool_calls[x].arguments
                      \o FragmentsFor(x, DeltasOf(<<drv'.recv[Len(drv'.recv)]>>)) ]_vars


\* C38: every invocation of a session-stateful tool by the loop is given a
\* session id, so it is not refused for want of a session context: its
\* tool message carries the tool's own result.
C38_SkillToolGetsSessionId ==
    loop.pc # "idle" =>
        \A p \in 1..Len(loop.msgs) :
            (loop.msgs[p].role = "tool" /\ loop.msgs[p].name \in SkillTools)
            => /\ LoopSessionId # None
               /\ loop.msgs[p].content = "ok"


\* C39: an operation on the object of one session leaves the objects of the
\* other sessions, their rows and their events as they were; a WebSocket
\* receives only events sent under the session id it was registered for;
\* and get_model never replaces the object of a session, so that there is
\* at most one object per session id, the one _models holds.
C39_SessionsIndependent ==
    /\ [][ \A i \in 1..Len(hub.insts) :
             MInstOp(i) =>
               /\ \A j \in 1..Len(hub.insts) :
                    hub.insts[j].sid # hub.insts[i].sid => hub'.insts[j] = hub.insts[j]
               /\ \A s \in Sessions \ {hub.insts[i].sid} :
                    hub'.tr[s] = hub.tr[s] /\ hub'.em[s] = hub.em[s] ]_vars
    /\ [][ \A s \in Sessions :
             hub.models[s] # NoInst => hub'.models[s] = hub.models[s] ]_vars
    /\ [](\A w \in Sockets : \A p \in 1..Len(hub.got[w]) :
             hub.got[w][p].sid = hub.route[w])
    /\ [](\A i, j \in 1..Len(hub.insts) :
             hub.insts[i].sid = hub.insts[j].sid => i = j)
    /\ [](\A s \in Sessions :
             hub.models[s] # NoInst => hub.insts[hub.models[s]].sid = s)

\* Both sessions have their object and a run of the same request id; the
\* WebSocket registered for one of them has received that session's
\* chat.started, and the events of the other session have been sent with
\* nothing delivered to it.
C39_Witness ==
    \E s, t \in Sessions, w \in Sockets :
        /\ s # t
        /\ hub.models[s] # NoInst /\ hub.models[t] # NoInst
        /\ hub.insts[hub.models[s]].ar # NoRun
        /\ hub.insts[hub.models[t]].ar # NoRun
        /\ hub.insts[hub.models[s]].seen = hub.insts[hub.models[t]].seen
        /\ hub.route[w] = s
        /\ Len(hub.got[w]) = 1
        /\ Len(hub.em[t]) > 0
        /\ \A n \in 1..Len(hub.sends) : hub.sends[n].st = "done"


\* C40: a step in which the task of a run whose cancellation signal is set
\* receives an upstream frame changes no run (so no open segment and no
\* buffer), no row of the transcript and emits no event: the token of the
\* frame reaches neither the segment of the run now in the slot, nor the
\* transcript, nor the clients.
C40_TokensOfSupersededRunDropped ==
    [][ \A i \in 1..Len(tasks) :
          ( /\ tasks[i].pc = "stream"
            /\ runs[i].cancel
            /\ tasks'[i] # tasks[i]
            /\ budget'.frames < budget.frames )
          => /\ runs' = runs
             /\ activeRun' = activeRun
             /\ transcript' = transcript
             /\ emitted' = emitted ]_vars

\* A run was superseded, the run of the new request has streamed the token
\* a into its open segment, and the task of the old run has then received
\* a frame and ended: the segment, its row and the events are as they were.
C40_Witness ==
    \E i, j \in 1..Len(runs) :
        /\ i < j
        /\ runs[i].cancel /\ runs[i].status = "cancelled"
        /\ tasks[i].pc = "done"
        /\ runs[j].rid # runs[i].rid
        /\ activeRun = j
        /\ runs[j].oa # NoMsg
        /\ runs[j].buf = <<"a">>
        /\ budget.frames = 0
        /\ Cardinality(EventsOf({"chat.delta"}, runs[j].rid)) = 1
        /\ EventsOf({"chat.delta"}, runs[i].rid) = {}

====
